---- MODULE Spec2Model ----
(***************************************************************************)
(* Flow Ledger finance tracker: the App component of src/src/App.tsx (the  *)
(* dated variant with pins, lines 653-2642) as a state machine.  State is  *)
(* the component's useState cells; each action is one event handler.       *)
(*                                                                         *)
(* Amounts are integers.  Monthly-equivalent figures are kept in units of  *)
(* 1/Scale of a currency unit (Scale = 12) so that the factors 1/3 and     *)
(* 1/12 of the cadence table stay exact; floating-point rounding of the    *)
(* JavaScript numbers is not modelled.                                     *)
(***************************************************************************)
EXTENDS Integers, Sequences, FiniteSets, TLC

VARIABLES categories, pinnedTransactionIds, dragState, dropCategoryId,
          isTrashHovered, nextId, events, last, csvCall, csvDocument,
          isLoading, pending, consoleErrors, remoteStore,
          status, errorMessage, theme, clientId, scriptElement, googleLibrary,
          loaderPromise, resolveCall, resolvedClientId

vars == <<categories, pinnedTransactionIds, dragState, dropCategoryId,
          isTrashHovered, nextId, events, last, csvCall, csvDocument,
          isLoading, pending, consoleErrors, remoteStore,
          status, errorMessage, theme, clientId, scriptElement, googleLibrary,
          loaderPromise, resolveCall, resolvedClientId>>

\* The state of the ledger view.
ledgerVars == <<categories, pinnedTransactionIds, dragState, dropCategoryId,
                isTrashHovered, nextId, events, last>>

\* The arguments and the outcome of a CSV export.
exportVars == <<csvCall, csvDocument>>

\* The remote-persistence App: the loading flag, the REST requests in
\* flight, the number of console.error calls, and the rows of the
\* transactions table the REST endpoint serves.
remoteVars == <<isLoading, pending, consoleErrors, remoteStore>>

\* The GoogleSignInButton component: its two useState cells, its theme
\* prop, its client id, the script element with id google-identity-services
\* (absent, fetching, loaded or failed), whether window.google.accounts.id
\* is defined, and the promise the mounted load effect waits on (none,
\* pending, or settled with its reaction still queued).
signInVars == <<status, errorMessage, theme, clientId, scriptElement,
                googleLibrary, loaderPromise>>

\* The arguments of a call of resolveGoogleClientId (the hostname and the
\* two environment values it reads) and what it returned.
resolveVars == <<resolveCall, resolvedClientId>>

identityVars == <<signInVars, resolveVars>>

\* ---------------------------------------------------------------- bounds

\* Number of UI events handled in one explored session.
MaxEvents == 2

\* Number of transactions created (form submissions and duplicates).
MaxNew == 2

\* The user acts on the first MaxPick transactions of a category list.
MaxPick == 1

\* Number of data rows handed to a CSV export.
MaxRows == 2

\* ------------------------------------------------------------- constants

\* Denominator of the unit in which monthly-equivalent figures are kept.
Scale == 12

\* null, for a category id
Null == "null"

\* null, for dragState
NoDrag == [transactionId |-> 0, fromCategoryId |-> Null]

\* A date string that is empty or does not parse.
NoDate == -1

\* new Date() of the session: the day, and the instant within that day.
Today == 2
TicksPerDay == 2
Now == Today * TicksPerDay + 1

CategoryKey ==
  {"income", "financial-obligations", "lifestyle-recurring",
   "personal-family", "savings-investments", "miscellaneous"}

TransactionCadence ==
  {"Weekly", "Bi-weekly", "Monthly", "Quarterly", "Annual", "One-time"}

TransactionFlow == {"Expense", "Income", "Savings"}

\* Faulty variant of cadenceToMonthlyFactor: One-time counted like Monthly.
cadenceToMonthlyFactor_OneTimeMonthly ==
  [c \in TransactionCadence |->
     CASE c = "Weekly"    -> 4 * Scale
       [] c = "Bi-weekly" -> 2 * Scale
       [] c = "Monthly"   -> 1 * Scale
       [] c = "Quarterly" -> Scale \div 3
       [] c = "Annual"    -> Scale \div 12
       [] c = "One-time"  -> 1 * Scale]

\* cadenceToMonthlyFactor, each factor multiplied by Scale.
cadenceToMonthlyFactor ==
  [c \in TransactionCadence |->
     CASE c = "Weekly"    -> 4 * Scale
       [] c = "Bi-weekly" -> 2 * Scale
       [] c = "Monthly"   -> 1 * Scale
       [] c = "Quarterly" -> Scale \div 3
       [] c = "Annual"    -> Scale \div 12
       [] c = "One-time"  -> Scale \div 12]

\* --------------------------------------------------------- seeded ledger

seededTransaction(id, label, amount, cadence, flow, note) ==
  [id |-> id, label |-> label, amount |-> amount, cadence |-> cadence,
   flow |-> flow, note |-> note, date |-> Today, createdAt |-> Now]

getTransactionTimestamp(transaction) ==
  IF transaction.date # NoDate
    THEN transaction.date * TicksPerDay
    ELSE IF transaction.createdAt # NoDate
      THEN transaction.createdAt
      ELSE 0

\* Insert t behind every element whose timestamp is not smaller (the sort is
\* stable and the comparator is timestamp(b) - timestamp(a)).
RECURSIVE InsertByRecency(_, _)
InsertByRecency(sorted, t) ==
  IF sorted = <<>>
    THEN <<t>>
    ELSE IF getTransactionTimestamp(Head(sorted)) >= getTransactionTimestamp(t)
      THEN <<Head(sorted)>> \o InsertByRecency(Tail(sorted), t)
      ELSE <<t>> \o sorted

RECURSIVE SortInto(_, _)
SortInto(sorted, rest) ==
  IF rest = <<>>
    THEN sorted
    ELSE SortInto(InsertByRecency(sorted, Head(rest)), Tail(rest))

sortTransactionsByRecency(transactions) == SortInto(<<>>, transactions)

baseCategories ==
  << [id |-> "income", name |-> "Income",
      transactions |->
        << seededTransaction(1, "Primary paycheck", 3200, "Monthly", "Income",
                             "Lands near the first of each month") >>],
     [id |-> "financial-obligations", name |-> "Financial obligations",
      transactions |->
        << seededTransaction(2, "Rent", 1850, "Monthly", "Expense",
                             "Due on the 1st each month"),
           seededTransaction(3, "Auto insurance", 165, "Monthly", "Expense",
                             "Covers both vehicles"),
           seededTransaction(4, "Student loan", 220, "Monthly", "Expense", "") >>],
     [id |-> "lifestyle-recurring", name |-> "Recurring",
      transactions |->
        << seededTransaction(5, "Gym membership", 42, "Monthly", "Expense", ""),
           seededTransaction(6, "Streaming bundle", 28, "Monthly", "Expense", "") >>],
     [id |-> "personal-family", name |-> "Personal & Lifestyle",
      transactions |->
        << seededTransaction(7, "Childcare co-op", 95, "Weekly", "Expense", ""),
           seededTransaction(8, "Family dinner night", 120, "Monthly", "Expense", "") >>],
     [id |-> "savings-investments", name |-> "Savings & investments",
      transactions |->
        << seededTransaction(9, "401(k) contribution", 350, "Monthly", "Savings", ""),
           seededTransaction(10, "High-yield savings", 150, "Monthly", "Savings", "") >>],
     [id |-> "miscellaneous", name |-> "Miscellaneous",
      transactions |->
        << seededTransaction(11, "Coffee shop budget", 45, "Monthly", "Expense", "") >>] >>

\* Number of ids handed out by generateId while the module is loaded.
SeededCount == 11

initialCategories ==
  [i \in 1..Len(baseCategories) |->
     [baseCategories[i] EXCEPT
        !.transactions = sortTransactionsByRecency(baseCategories[i].transactions)]]

\* ------------------------------------------------------- derived figures

\* Monthly-equivalent of one transaction, in 1/Scale units.
Normalized(transaction) ==
  transaction.amount * cadenceToMonthlyFactor[transaction.cadence]

\* Faulty variant of SignedSum: Income is added like every other flow.
RECURSIVE SignedSum_Unsigned(_)
SignedSum_Unsigned(transactions) ==
  IF transactions = <<>>
    THEN 0
    ELSE SignedSum_Unsigned(SubSeq(transactions, 1, Len(transactions) - 1))
         + Normalized(transactions[Len(transactions)])

RECURSIVE SignedSum(_)
SignedSum(transactions) ==
  IF transactions = <<>>
    THEN 0
    ELSE LET t == transactions[Len(transactions)]
             sum == SignedSum(SubSeq(transactions, 1, Len(transactions) - 1))
         IN  IF t.flow = "Income" THEN sum - Normalized(t) ELSE sum + Normalized(t)

\* Faulty variant of TotalsAfter: Savings are left out of a category's total.
RECURSIVE TotalsAfter_WithoutSavings(_, _)
TotalsAfter_WithoutSavings(current, n) ==
  IF n = 0
    THEN [k \in CategoryKey |-> 0]
    ELSE [TotalsAfter_WithoutSavings(current, n - 1) EXCEPT
            ![current[n].id] =
              SignedSum(SelectSeq(current[n].transactions,
                                  LAMBDA t : t.flow # "Savings"))]

\* totals after categories.forEach has visited the first n categories.
RECURSIVE TotalsAfter(_, _)
TotalsAfter(current, n) ==
  IF n = 0
    THEN [k \in CategoryKey |-> 0]
    ELSE [TotalsAfter(current, n - 1) EXCEPT
            ![current[n].id] = SignedSum(current[n].transactions)]

categoryMonthlyTotals(current) == TotalsAfter(current, Len(current))

\* All transactions in the order the nested forEach visits them.
RECURSIVE Flatten(_, _)
Flatten(current, n) ==
  IF n = 0 THEN <<>> ELSE Flatten(current, n - 1) \o current[n].transactions

\* Faulty variant of Scalars: Savings is kept out of monthlyCommitments.
RECURSIVE Scalars_SavingsApart(_, _)
Scalars_SavingsApart(all, n) ==
  IF n = 0
    THEN [monthlyCommitments |-> 0, monthlySavings |-> 0, monthlyIncome |-> 0,
          totalTransactions |-> 0]
    ELSE LET acc == Scalars_SavingsApart(all, n - 1)
             normalized == Normalized(all[n])
             counted == [acc EXCEPT !.totalTransactions = @ + 1]
         IN  IF all[n].flow = "Income"
               THEN [counted EXCEPT !.monthlyIncome = @ + normalized]
               ELSE IF all[n].flow = "Savings"
                 THEN [counted EXCEPT !.monthlySavings = @ + normalized]
                 ELSE [counted EXCEPT !.monthlyCommitments = @ + normalized]

\* Faulty variant of Scalars: only Savings is singled out, Income falls through to
\* the commitments.
RECURSIVE Scalars_IncomeCommits(_, _)
Scalars_IncomeCommits(all, n) ==
  IF n = 0
    THEN [monthlyCommitments |-> 0, monthlySavings |-> 0, monthlyIncome |-> 0,
          totalTransactions |-> 0]
    ELSE LET acc == Scalars_IncomeCommits(all, n - 1)
             normalized == Normalized(all[n])
             counted == [acc EXCEPT !.totalTransactions = @ + 1]
         IN  IF all[n].flow = "Savings"
               THEN [counted EXCEPT !.monthlySavings = @ + normalized,
                                    !.monthlyCommitments = @ + normalized]
               ELSE [counted EXCEPT !.monthlyCommitments = @ + normalized,
                                    !.monthlyIncome =
                                       IF all[n].flow = "Income"
                                         THEN @ + normalized ELSE @]

\* The running scalars of summary after the first n visited transactions.
RECURSIVE Scalars(_, _)
Scalars(all, n) ==
  IF n = 0
    THEN [monthlyCommitments |-> 0, monthlySavings |-> 0, monthlyIncome |-> 0,
          totalTransactions |-> 0]
    ELSE LET acc == Scalars(all, n - 1)
             normalized == Normalized(all[n])
             counted == [acc EXCEPT !.totalTransactions = @ + 1]
         IN  IF all[n].flow = "Income"
               THEN [counted EXCEPT !.monthlyIncome = @ + normalized]
               ELSE IF all[n].flow = "Savings"
                 THEN [counted EXCEPT !.monthlySavings = @ + normalized,
                                      !.monthlyCommitments = @ + normalized]
                 ELSE [counted EXCEPT !.monthlyCommitments = @ + normalized]

\* Faulty variant of TopAfter: a later category with an equal total takes over.
RECURSIVE TopAfter_LastWins(_, _, _)
TopAfter_LastWins(current, totals, n) ==
  IF n = 0
    THEN [name |-> IF Len(current) > 0 THEN current[1].name
                                       ELSE "Financial obligations",
          total |-> 0]
    ELSE LET acc == TopAfter_LastWins(current, totals, n - 1)
             total == totals[current[n].id]
         IN  IF total >= acc.total
               THEN [name |-> current[n].name, total |-> total]
               ELSE acc

\* The accumulator of the topCategory reduce after the first n categories.
RECURSIVE TopAfter(_, _, _)
TopAfter(current, totals, n) ==
  IF n = 0
    THEN [name |-> IF Len(current) > 0 THEN current[1].name
                                       ELSE "Financial obligations",
          total |-> 0]
    ELSE LET acc == TopAfter(current, totals, n - 1)
             total == totals[current[n].id]
         IN  IF total > acc.total
               THEN [name |-> current[n].name, total |-> total]
               ELSE acc

summary(current) ==
  LET all == Flatten(current, Len(current))
      s == Scalars(all, Len(all))
  IN  [monthlyCommitments |-> s.monthlyCommitments,
       monthlySavings |-> s.monthlySavings,
       monthlyIncome |-> s.monthlyIncome,
       net |-> s.monthlyIncome - s.monthlyCommitments,
       totalTransactions |-> s.totalTransactions,
       topCategory |-> TopAfter(current, categoryMonthlyTotals(current), Len(current))]

\* pinnedSummary.total: the pinned transactions' monthly-equivalents.
RECURSIVE PinnedTotal(_, _, _)
PinnedTotal(all, pins, n) ==
  IF n = 0
    THEN 0
    ELSE PinnedTotal(all, pins, n - 1)
         + (IF \E i \in 1..Len(pins) : pins[i] = all[n].id
              THEN (IF Normalized(all[n]) < 0 THEN 0 - Normalized(all[n])
                                              ELSE Normalized(all[n]))
              ELSE 0)

\* The pinned transactions in the order the nested forEach collects them.
RECURSIVE Collected(_, _, _)
Collected(current, pins, n) ==
  IF n = 0
    THEN <<>>
    ELSE LET category == current[n]
             chosen == SelectSeq(category.transactions,
                                 LAMBDA t : \E i \in 1..Len(pins) : pins[i] = t.id)
         IN  Collected(current, pins, n - 1)
             \o [j \in 1..Len(chosen) |->
                   [id |-> chosen[j].id, name |-> chosen[j].label,
                    categoryName |-> category.name,
                    value |-> IF Normalized(chosen[j]) < 0
                                THEN 0 - Normalized(chosen[j])
                                ELSE Normalized(chosen[j])]]

\* collected.sort((a, b) => b.value - a.value), a stable sort.
RECURSIVE InsertByValue(_, _)
InsertByValue(sorted, item) ==
  IF sorted = <<>>
    THEN <<item>>
    ELSE IF Head(sorted).value >= item.value
      THEN <<Head(sorted)>> \o InsertByValue(Tail(sorted), item)
      ELSE <<item>> \o sorted

RECURSIVE SortedByValue(_, _)
SortedByValue(sorted, rest) ==
  IF rest = <<>>
    THEN sorted
    ELSE SortedByValue(InsertByValue(sorted, Head(rest)), Tail(rest))

pinnedSummary(current, pins) ==
  IF Len(pins) = 0
    THEN [items |-> <<>>, total |-> 0]
    ELSE [items |-> SortedByValue(<<>>, Collected(current, pins, Len(current))),
          total |-> PinnedTotal(Flatten(current, Len(current)), pins,
                                Len(Flatten(current, Len(current))))]

\* Faulty variant of yearlyOutlook: the net figure is projected from income less
\* savings.
yearlyOutlook_NetOfSavings(current) ==
  LET s == summary(current)
  IN  [income |-> s.monthlyIncome * 12,
       commitments |-> s.monthlyCommitments * 12,
       savings |-> s.monthlySavings * 12,
       net |-> (s.monthlyIncome - s.monthlySavings) * 12]

yearlyOutlook(current) ==
  LET s == summary(current)
  IN  [income |-> s.monthlyIncome * 12,
       commitments |-> s.monthlyCommitments * 12,
       savings |-> s.monthlySavings * 12,
       net |-> s.net * 12]

\* ------------------------------------------------------------ CSV export

\* String.prototype.includes, for one character.
includes(text, ch) == \E i \in 1..Len(text) : SubSeq(text, i, i) = ch

\* text.replace(/"/g, '""')
RECURSIVE replaceQuotes(_)
replaceQuotes(text) ==
  IF Len(text) = 0
    THEN ""
    ELSE (IF SubSeq(text, 1, 1) = "\"" THEN "\"\"" ELSE SubSeq(text, 1, 1))
         \o replaceQuotes(SubSeq(text, 2, Len(text)))

\* Faulty variant of escapeCell: embedded quotes are not doubled.
escapeCell_NoDoubling(cell) ==
  IF includes(cell, "\"") \/ includes(cell, ",") \/ includes(cell, "\n")
    THEN "\"" \o cell \o "\""
    ELSE cell

escapeCell(cell) ==
  IF includes(cell, "\"")
    THEN "\"" \o replaceQuotes(cell) \o "\""
    ELSE IF includes(cell, ",") \/ includes(cell, "\n")
      THEN "\"" \o cell \o "\""
      ELSE cell

\* Array.prototype.join
RECURSIVE join(_, _)
join(texts, separator) ==
  IF Len(texts) = 0
    THEN ""
    ELSE IF Len(texts) = 1
      THEN texts[1]
      ELSE texts[1] \o separator \o join(Tail(texts), separator)

\* Faulty variant of csvContent: the header row is left out.
csvContent_RowsOnly(headers, rows) ==
  join([i \in 1..Len(rows) |->
          join([j \in 1..Len(rows[i]) |-> escapeCell(rows[i][j])], ",")],
       "\n")

csvContent(headers, rows) ==
  LET table == <<headers>> \o rows
  IN  join([i \in 1..Len(table) |->
              join([j \in 1..Len(table[i]) |-> escapeCell(table[i][j])], ",")],
           "\n")

\* No export has been asked for.
NoCall == [headers |-> <<>>, rows |-> <<>>]

NoDocument == [called |-> FALSE, built |-> FALSE, content |-> ""]

\* downloadCsv(fileName, headers, rows): the document handed to the browser.
downloadCsv ==
  /\ ~csvDocument.called
  /\ csvDocument' =
       IF Len(csvCall.rows) = 0
         THEN [called |-> TRUE, built |-> FALSE, content |-> ""]
         ELSE [called |-> TRUE, built |-> TRUE,
               content |-> csvContent(csvCall.headers, csvCall.rows)]
  /\ UNCHANGED csvCall
  /\ UNCHANGED <<ledgerVars, remoteVars, identityVars>>

\* ---------------------------------------------------------------- inputs

\* What TransactionForm.handleSubmit passes on: one entry per cadence.
AddPayloads ==
  { [label |-> "Salary", amount |-> 3000, cadence |-> "Monthly",
     flow |-> "Income", note |-> "", date |-> Today],
    [label |-> "Groceries", amount |-> 300, cadence |-> "Weekly",
     flow |-> "Expense", note |-> "weekly shop", date |-> Today - 1],
    [label |-> "Index fund", amount |-> 90, cadence |-> "Quarterly",
     flow |-> "Savings", note |-> "", date |-> Today + 1],
    [label |-> "Insurance", amount |-> 240, cadence |-> "Annual",
     flow |-> "Expense", note |-> "", date |-> NoDate],
    [label |-> "Tutoring", amount |-> 50, cadence |-> "Bi-weekly",
     flow |-> "Income", note |-> "", date |-> Today],
    [label |-> "Gift", amount |-> 600, cadence |-> "One-time",
     flow |-> "Savings", note |-> "", date |-> Today - 1] }

\* String.prototype.trim, for the blank character.
RECURSIVE trimStart(_)
trimStart(s) ==
  IF Len(s) > 0 /\ SubSeq(s, 1, 1) = " " THEN trimStart(SubSeq(s, 2, Len(s))) ELSE s

RECURSIVE trimEnd(_)
trimEnd(s) ==
  IF Len(s) > 0 /\ SubSeq(s, Len(s), Len(s)) = " "
    THEN trimEnd(SubSeq(s, 1, Len(s) - 1))
    ELSE s

trim(s) == trimEnd(trimStart(s))

DigitValue(ch) ==
  CASE ch = "0" -> 0 [] ch = "1" -> 1 [] ch = "2" -> 2 [] ch = "3" -> 3
    [] ch = "4" -> 4 [] ch = "5" -> 5 [] ch = "6" -> 6 [] ch = "7" -> 7
    [] ch = "8" -> 8 [] ch = "9" -> 9 [] OTHER -> -1

\* The value of a string of decimal digits, -1 when another character occurs.
RECURSIVE DigitsValue(_)
DigitsValue(s) ==
  IF Len(s) = 0
    THEN 0
    ELSE LET front == DigitsValue(SubSeq(s, 1, Len(s) - 1))
             digit == DigitValue(SubSeq(s, Len(s), Len(s)))
         IN  IF front < 0 \/ digit < 0 THEN -1 ELSE front * 10 + digit

\* Number(string) for texts of blanks, a sign and decimal digits: blanks
\* around the numeral are skipped, the empty text is 0, and a text that is
\* not a numeral is NaN.  Fractions and exponents are not among the inputs.
Number(text) ==
  LET t == trim(text)
      signed == Len(t) > 0 /\ SubSeq(t, 1, 1) \in {"-", "+"}
      digits == IF signed THEN SubSeq(t, 2, Len(t)) ELSE t
      magnitude == DigitsValue(digits)
  IN  IF Len(t) = 0
        THEN [isNaN |-> FALSE, value |-> 0]
        ELSE IF Len(digits) = 0 \/ magnitude < 0
          THEN [isNaN |-> TRUE, value |-> 0]
          ELSE [isNaN |-> FALSE,
                value |-> IF SubSeq(t, 1, 1) = "-" THEN 0 - magnitude ELSE magnitude]

\* The fields of TransactionForm at the moment of a submit.
FormFields ==
  { [categoryId |-> "miscellaneous", label |-> " Bus pass ", amount |-> " 40 ",
     cadence |-> "Monthly", flow |-> "Expense", note |-> " zone 2 ", date |-> Today],
    [categoryId |-> "income", label |-> "Refund", amount |-> "+7",
     cadence |-> "One-time", flow |-> "Income", note |-> "", date |-> Today],
    [categoryId |-> "miscellaneous", label |-> "", amount |-> "12",
     cadence |-> "Monthly", flow |-> "Expense", note |-> "", date |-> Today],
    [categoryId |-> "miscellaneous", label |-> "  ", amount |-> "12",
     cadence |-> "Monthly", flow |-> "Expense", note |-> "", date |-> Today],
    [categoryId |-> "miscellaneous", label |-> "Rent", amount |-> "",
     cadence |-> "Monthly", flow |-> "Expense", note |-> "", date |-> Today],
    [categoryId |-> "miscellaneous", label |-> "Rent", amount |-> "abc",
     cadence |-> "Monthly", flow |-> "Expense", note |-> "", date |-> Today],
    [categoryId |-> "miscellaneous", label |-> "Rent", amount |-> "1 2",
     cadence |-> "Monthly", flow |-> "Expense", note |-> "", date |-> Today],
    [categoryId |-> "miscellaneous", label |-> "Rent", amount |-> "0",
     cadence |-> "Monthly", flow |-> "Expense", note |-> "", date |-> Today],
    [categoryId |-> "miscellaneous", label |-> "Rent", amount |-> "-5",
     cadence |-> "Monthly", flow |-> "Expense", note |-> "", date |-> Today] }

\* ---------------------------------------------------------------- helpers

Min(a, b) == IF a < b THEN a ELSE b

IdsOf(transactions) == {transactions[i].id : i \in 1..Len(transactions)}

\* The ids present in any category list.
AllIds(current) == UNION {IdsOf(current[i].transactions) : i \in 1..Len(current)}

\* How often id occurs over all category lists.
CountIn(transactions, id) ==
  Cardinality({j \in 1..Len(transactions) : transactions[j].id = id})

RECURSIVE OccurrencesUpTo(_, _, _)
OccurrencesUpTo(current, id, n) ==
  IF n = 0
    THEN 0
    ELSE OccurrencesUpTo(current, id, n - 1) + CountIn(current[n].transactions, id)

Occurrences(current, id) == OccurrencesUpTo(current, id, Len(current))

\* The list of the category with the given id (empty when there is none).
TransactionsOf(current, categoryId) ==
  IF \E i \in 1..Len(current) : current[i].id = categoryId
    THEN current[CHOOSE i \in 1..Len(current) : current[i].id = categoryId].transactions
    ELSE <<>>

\* The transactions of a category the user can reach for.
Pickable(category) ==
  {category.transactions[j].id : j \in 1..Min(MaxPick, Len(category.transactions))}

Includes(pins, id) == \E i \in 1..Len(pins) : pins[i] = id

Idle == dragState = NoDrag

\* The event handled last: the handler, its arguments, whether the
\* transaction it names was in a category list and whether it was pinned
\* when the handler ran, and the column that was highlighted then.
Event(op, from, to, id) ==
  [op |-> op, from |-> from, to |-> to, id |-> id,
   present |-> id \in AllIds(categories), hover |-> dropCategoryId,
   pinned |-> Includes(pinnedTransactionIds, id)]

\* ------------------------------------------------------- state updaters

\* Faulty variant of AddedTo: the new transaction is appended and the list
\* is not sorted again.
AddedTo_Unsorted(current, categoryId, newTransaction) ==
  [i \in 1..Len(current) |->
     IF current[i].id = categoryId
       THEN [current[i] EXCEPT
               !.transactions = Append(current[i].transactions, newTransaction)]
       ELSE current[i]]

\* The setCategories updater of handleAddTransaction.
AddedTo(current, categoryId, newTransaction) ==
  [i \in 1..Len(current) |->
     IF current[i].id = categoryId
       THEN [current[i] EXCEPT
               !.transactions = sortTransactionsByRecency(
                                  Append(current[i].transactions, newTransaction))]
       ELSE current[i]]

\* Faulty variant of Duplicated: the copy keeps the id of the original.
Duplicated_KeepsId(current, categoryId, transactionId, newId) ==
  [i \in 1..Len(current) |->
     IF current[i].id # categoryId
       THEN current[i]
       ELSE LET found == SelectSeq(current[i].transactions,
                                   LAMBDA t : t.id = transactionId)
            IN  IF found = <<>>
                  THEN current[i]
                  ELSE LET clonedTransaction ==
                             [found[1] EXCEPT !.date = Today, !.createdAt = Now]
                       IN  [current[i] EXCEPT
                              !.transactions = sortTransactionsByRecency(
                                Append(current[i].transactions, clonedTransaction))]]

\* The setCategories updater of duplicateTransaction.
Duplicated(current, categoryId, transactionId, newId) ==
  [i \in 1..Len(current) |->
     IF current[i].id # categoryId
       THEN current[i]
       ELSE LET found == SelectSeq(current[i].transactions,
                                   LAMBDA t : t.id = transactionId)
            IN  IF found = <<>>
                  THEN current[i]
                  ELSE LET clonedTransaction ==
                             [found[1] EXCEPT !.id = newId, !.date = Today,
                                              !.createdAt = Now]
                       IN  [current[i] EXCEPT
                              !.transactions = sortTransactionsByRecency(
                                Append(current[i].transactions, clonedTransaction))]]

\* Faulty variant of Moved: the transaction is added to the target but the origin
\* list is returned unfiltered.
Moved_KeepsOrigin(current, fromCategory, toCategory, transactionId) ==
  LET found == SelectSeq(TransactionsOf(current, fromCategory),
                         LAMBDA t : t.id = transactionId)
  IN  IF found = <<>>
        THEN current
        ELSE [i \in 1..Len(current) |->
                IF current[i].id = toCategory
                  THEN [current[i] EXCEPT
                          !.transactions = sortTransactionsByRecency(
                            Append(current[i].transactions, found[Len(found)]))]
                  ELSE current[i]]

\* Faulty variant of Moved: the origin list is filtered but the result of the first
\* map is returned, so the transaction never reaches the target.
Moved_Loses(current, fromCategory, toCategory, transactionId) ==
  [i \in 1..Len(current) |->
     IF current[i].id # fromCategory
       THEN current[i]
       ELSE [current[i] EXCEPT
               !.transactions = sortTransactionsByRecency(
                 SelectSeq(current[i].transactions,
                           LAMBDA t : t.id # transactionId))]]

\* Faulty variant of Moved: the target list is not sorted after the append.
Moved_AppendsLast(current, fromCategory, toCategory, transactionId) ==
  LET found == SelectSeq(TransactionsOf(current, fromCategory),
                         LAMBDA t : t.id = transactionId)
  IN  IF found = <<>>
        THEN current
        ELSE [i \in 1..Len(current) |->
                IF current[i].id = fromCategory
                  THEN [current[i] EXCEPT
                          !.transactions = sortTransactionsByRecency(
                            SelectSeq(current[i].transactions,
                                      LAMBDA t : t.id # transactionId))]
                  ELSE IF current[i].id = toCategory
                    THEN [current[i] EXCEPT
                            !.transactions = Append(current[i].transactions,
                                                    found[Len(found)])]
                    ELSE current[i]]

\* The setCategories updater of moveTransaction (fromCategory # toCategory).
Moved(current, fromCategory, toCategory, transactionId) ==
  LET found == SelectSeq(TransactionsOf(current, fromCategory),
                         LAMBDA t : t.id = transactionId)
      withoutTransaction ==
        [i \in 1..Len(current) |->
           IF current[i].id # fromCategory
             THEN current[i]
             ELSE [current[i] EXCEPT
                     !.transactions = sortTransactionsByRecency(
                       SelectSeq(current[i].transactions,
                                 LAMBDA t : t.id # transactionId))]]
  IN  IF found = <<>>
        THEN current
        ELSE LET transactionToMove == found[Len(found)]
             IN  [i \in 1..Len(withoutTransaction) |->
                    IF withoutTransaction[i].id = toCategory
                      THEN [withoutTransaction[i] EXCEPT
                              !.transactions = sortTransactionsByRecency(
                                Append(withoutTransaction[i].transactions,
                                       transactionToMove))]
                      ELSE withoutTransaction[i]]

\* The setCategories updater of deleteTransaction.
Deleted(current, categoryId, transactionId) ==
  [i \in 1..Len(current) |->
     IF current[i].id = categoryId
       THEN [current[i] EXCEPT
               !.transactions = sortTransactionsByRecency(
                 SelectSeq(current[i].transactions,
                           LAMBDA t : t.id # transactionId))]
       ELSE current[i]]

\* Faulty variant of Toggled: the id is appended without looking for it.
Toggled_AlwaysAppends(pins, transactionId) == Append(pins, transactionId)

\* The setPinnedTransactionIds updater of togglePinnedTransaction.
Toggled(pins, transactionId) ==
  IF Includes(pins, transactionId)
    THEN SelectSeq(pins, LAMBDA id : id # transactionId)
    ELSE Append(pins, transactionId)

\* --------------------------------------------------------------- actions

\* Faulty variant of handleAddTransaction: the id handed out last is used again.
handleAddTransaction_ReusesId(categoryId, payload) ==
  /\ events < MaxEvents
  /\ nextId <= SeededCount + MaxNew
  /\ LET newTransaction ==
           [id |-> nextId - 1, label |-> payload.label, amount |-> payload.amount,
            cadence |-> payload.cadence, flow |-> payload.flow,
            note |-> payload.note, date |-> payload.date, createdAt |-> Now]
     IN  categories' = AddedTo(categories, categoryId, newTransaction)
  /\ nextId' = nextId + 1
  /\ events' = events + 1
  /\ last' = Event("add", Null, categoryId, nextId - 1)
  /\ UNCHANGED <<pinnedTransactionIds, dragState, dropCategoryId, isTrashHovered>>

\* TransactionForm submits a valid payload for the selected category.
handleAddTransaction(categoryId, payload) ==
  /\ events < MaxEvents
  /\ nextId <= SeededCount + MaxNew
  /\ LET newTransaction ==
           [id |-> nextId, label |-> payload.label, amount |-> payload.amount,
            cadence |-> payload.cadence, flow |-> payload.flow,
            note |-> payload.note, date |-> payload.date, createdAt |-> Now]
     IN  categories' = AddedTo(categories, categoryId, newTransaction)
  /\ nextId' = nextId + 1
  /\ events' = events + 1
  /\ last' = Event("add", Null, categoryId, nextId)
  /\ UNCHANGED <<pinnedTransactionIds, dragState, dropCategoryId, isTrashHovered>>

\* Faulty variant of handleSubmit: the amount is only tested for NaN.
handleSubmit_AnyAmount(form) ==
  LET parsedAmount == Number(form.amount)
  IN  IF trim(form.label) = "" \/ parsedAmount.isNaN
        THEN /\ events < MaxEvents
             /\ events' = events + 1
             /\ last' = Event("rejected", Null, form.categoryId, 0)
             /\ UNCHANGED <<categories, pinnedTransactionIds, dragState,
                            dropCategoryId, isTrashHovered, nextId>>
        ELSE handleAddTransaction(form.categoryId,
               [label |-> trim(form.label), amount |-> parsedAmount.value,
                cadence |-> form.cadence, flow |-> form.flow,
                note |-> trim(form.note), date |-> form.date])

\* submit of TransactionForm: the form declines, or calls onAddTransaction.
handleSubmit(form) ==
  LET parsedAmount == Number(form.amount)
  IN  IF trim(form.label) = "" \/ parsedAmount.isNaN \/ parsedAmount.value <= 0
        THEN /\ events < MaxEvents
             /\ events' = events + 1
             /\ last' = Event("rejected", Null, form.categoryId, 0)
             /\ UNCHANGED <<categories, pinnedTransactionIds, dragState,
                            dropCategoryId, isTrashHovered, nextId>>
        ELSE handleAddTransaction(form.categoryId,
               [label |-> trim(form.label), amount |-> parsedAmount.value,
                cadence |-> form.cadence, flow |-> form.flow,
                note |-> trim(form.note), date |-> form.date])

\* The pin button of a transaction card.
togglePinnedTransaction(transactionId) ==
  /\ events < MaxEvents
  /\ pinnedTransactionIds' = Toggled(pinnedTransactionIds, transactionId)
  /\ events' = events + 1
  /\ last' = Event("pin", Null, Null, transactionId)
  /\ UNCHANGED <<categories, dragState, dropCategoryId, isTrashHovered, nextId>>

\* The duplicate button of a transaction card.
duplicateTransaction(categoryId, transactionId) ==
  /\ events < MaxEvents
  /\ nextId <= SeededCount + MaxNew
  /\ categories' = Duplicated(categories, categoryId, transactionId, nextId)
  /\ nextId' = nextId + 1
  /\ events' = events + 1
  /\ last' = Event("duplicate", categoryId, categoryId, transactionId)
  /\ UNCHANGED <<pinnedTransactionIds, dragState, dropCategoryId, isTrashHovered>>

\* dragstart on a transaction card of a category column.
handleDragStart(originCategoryId, transactionId) ==
  /\ events < MaxEvents
  /\ dragState' = [transactionId |-> transactionId,
                   fromCategoryId |-> originCategoryId]
  /\ isTrashHovered' = FALSE
  /\ events' = events + 1
  /\ last' = Event("dragStart", originCategoryId, Null, transactionId)
  /\ UNCHANGED <<categories, pinnedTransactionIds, dropCategoryId, nextId>>

\* Faulty variant of handleDragOver: the column does not look at isDragging.
handleDragOver_WhenIdle(targetCategoryId) ==
  /\ events < MaxEvents
  /\ dropCategoryId' = targetCategoryId
  /\ events' = events + 1
  /\ last' = Event("dragOver", Null, targetCategoryId, 0)
  /\ UNCHANGED <<categories, pinnedTransactionIds, dragState, isTrashHovered, nextId>>

\* dragover on a category column; the column ignores it unless isDragging.
handleDragOver(targetCategoryId) ==
  /\ events < MaxEvents
  /\ dragState # NoDrag
  /\ dropCategoryId' = targetCategoryId
  /\ events' = events + 1
  /\ last' = Event("dragOver", Null, targetCategoryId, 0)
  /\ UNCHANGED <<categories, pinnedTransactionIds, dragState, isTrashHovered, nextId>>

\* Faulty variant of moveTransaction: no early return when both categories agree.
moveTransaction_NoEarlyReturn(fromCategory, toCategory, transactionId) ==
  /\ categories' = Moved(categories, fromCategory, toCategory, transactionId)
  /\ dragState' = NoDrag
  /\ dropCategoryId' = Null
  /\ isTrashHovered' = FALSE
  /\ UNCHANGED <<pinnedTransactionIds, nextId>>

\* Faulty variant of moveTransaction: the moved transaction is unpinned.
moveTransaction_Unpins(fromCategory, toCategory, transactionId) ==
  /\ categories' =
       IF fromCategory = toCategory
         THEN categories
         ELSE Moved(categories, fromCategory, toCategory, transactionId)
  /\ pinnedTransactionIds' =
       IF fromCategory = toCategory
         THEN pinnedTransactionIds
         ELSE SelectSeq(pinnedTransactionIds, LAMBDA id : id # transactionId)
  /\ dragState' = NoDrag
  /\ dropCategoryId' = Null
  /\ isTrashHovered' = FALSE
  /\ UNCHANGED nextId

\* What moveTransaction does to the state.
moveTransaction(fromCategory, toCategory, transactionId) ==
  /\ categories' =
       IF fromCategory = toCategory
         THEN categories
         ELSE Moved(categories, fromCategory, toCategory, transactionId)
  /\ dragState' = NoDrag
  /\ dropCategoryId' = Null
  /\ isTrashHovered' = FALSE
  /\ UNCHANGED <<pinnedTransactionIds, nextId>>

\* Faulty variant of handleDrop: the transaction goes to the column hovered last.
handleDrop_ToHoverTarget(targetCategoryId) ==
  /\ events < MaxEvents
  /\ events' = events + 1
  /\ last' = Event("drop", dragState.fromCategoryId, targetCategoryId,
                   dragState.transactionId)
  /\ IF dragState = NoDrag
       THEN UNCHANGED <<categories, pinnedTransactionIds, dragState,
                        dropCategoryId, isTrashHovered, nextId>>
       ELSE moveTransaction(dragState.fromCategoryId,
                            IF dropCategoryId = Null THEN targetCategoryId
                                                     ELSE dropCategoryId,
                            dragState.transactionId)

\* drop on a category column: handleDrop, and moveTransaction when dragging.
handleDrop(targetCategoryId) ==
  /\ events < MaxEvents
  /\ events' = events + 1
  /\ last' = Event("drop", dragState.fromCategoryId, targetCategoryId,
                   dragState.transactionId)
  /\ IF dragState = NoDrag
       THEN UNCHANGED <<categories, pinnedTransactionIds, dragState,
                        dropCategoryId, isTrashHovered, nextId>>
       ELSE moveTransaction(dragState.fromCategoryId, targetCategoryId,
                            dragState.transactionId)

\* Faulty variant of handleDragEnd: the drag state is not reset.
handleDragEnd_KeepsDrag ==
  /\ events < MaxEvents
  /\ dropCategoryId' = Null
  /\ isTrashHovered' = FALSE
  /\ events' = events + 1
  /\ last' = Event("dragEnd", Null, Null, 0)
  /\ UNCHANGED <<categories, pinnedTransactionIds, nextId, dragState>>

\* dragend on a transaction card.
handleDragEnd ==
  /\ events < MaxEvents
  /\ dragState' = NoDrag
  /\ dropCategoryId' = Null
  /\ isTrashHovered' = FALSE
  /\ events' = events + 1
  /\ last' = Event("dragEnd", Null, Null, 0)
  /\ UNCHANGED <<categories, pinnedTransactionIds, nextId>>

\* Faulty variant of DeleteEffect: the pin set is left alone.
DeleteEffect_KeepsPin(categoryId, transactionId) ==
  /\ categories' = Deleted(categories, categoryId, transactionId)
  /\ dragState' = NoDrag
  /\ dropCategoryId' = Null
  /\ isTrashHovered' = FALSE
  /\ UNCHANGED <<nextId, pinnedTransactionIds>>

\* What deleteTransaction does to the state, whoever calls it.
DeleteEffect(categoryId, transactionId) ==
  /\ categories' = Deleted(categories, categoryId, transactionId)
  /\ pinnedTransactionIds' =
       SelectSeq(pinnedTransactionIds, LAMBDA id : id # transactionId)
  /\ dragState' = NoDrag
  /\ dropCategoryId' = Null
  /\ isTrashHovered' = FALSE
  /\ UNCHANGED nextId

\* The delete button of a transaction card.
deleteTransaction(categoryId, transactionId) ==
  /\ events < MaxEvents
  /\ DeleteEffect(categoryId, transactionId)
  /\ events' = events + 1
  /\ last' = Event("delete", categoryId, Null, transactionId)

\* dragover / dragenter on the trash zone, which exists only while dragging.
handleTrashDragOver ==
  /\ events < MaxEvents
  /\ dragState # NoDrag
  /\ isTrashHovered' = TRUE
  /\ events' = events + 1
  /\ last' = Event("trashOver", Null, Null, 0)
  /\ UNCHANGED <<categories, pinnedTransactionIds, dragState, dropCategoryId, nextId>>

\* dragleave on the trash zone.
handleTrashDragLeave ==
  /\ events < MaxEvents
  /\ dragState # NoDrag
  /\ isTrashHovered' = FALSE
  /\ events' = events + 1
  /\ last' = Event("trashLeave", Null, Null, 0)
  /\ UNCHANGED <<categories, pinnedTransactionIds, dragState, dropCategoryId, nextId>>

\* drop on the trash zone.
handleTrashDrop ==
  /\ events < MaxEvents
  /\ dragState # NoDrag
  /\ DeleteEffect(dragState.fromCategoryId, dragState.transactionId)
  /\ events' = events + 1
  /\ last' = Event("trashDrop", dragState.fromCategoryId, Null,
                   dragState.transactionId)

\* ------------------------------------------------------- specifications

\* The ids that were handed out and are no longer in any category.
GoneIds == (1..(nextId - 1)) \ AllIds(categories)

\* The gone ids a late click can still name: the MaxPick newest of them.
StaleIds == {id \in GoneIds : Cardinality({g \in GoneIds : g > id}) < MaxPick}

NoResolveCall ==
  [hostname |-> "", explicit |-> "",
   hostMap |-> [isObject |-> FALSE, entries |-> << >>]]

NotResolved == [called |-> FALSE, value |-> ""]

\* The GoogleSignInButton is not on the page: its cells hold their initial
\* values and no script element has been created; resolveGoogleClientId has
\* not been called.
signInUnmounted ==
  /\ status = "idle"
  /\ errorMessage = Null
  /\ theme = "light"
  /\ clientId = ""
  /\ scriptElement = "absent"
  /\ googleLibrary = FALSE
  /\ loaderPromise = "none"
  /\ resolveCall = NoResolveCall
  /\ resolvedClientId = NotResolved

Init ==
  /\ categories = initialCategories
  /\ pinnedTransactionIds = <<>>
  /\ dragState = NoDrag
  /\ dropCategoryId = Null
  /\ isTrashHovered = FALSE
  /\ nextId = SeededCount + 1
  /\ events = 0
  /\ last = [op |-> "init", from |-> Null, to |-> Null, id |-> 0,
             present |-> FALSE, hover |-> Null, pinned |-> FALSE]
  /\ csvCall = NoCall
  /\ csvDocument = NoDocument
  /\ isLoading = FALSE
  /\ pending = {}
  /\ consoleErrors = 0
  /\ remoteStore = {}
  /\ signInUnmounted

Next ==
  \/ /\ \E c \in CategoryKey, p \in AddPayloads : handleAddTransaction(c, p)
     /\ UNCHANGED <<exportVars, remoteVars, identityVars>>
  \/ /\ \E form \in FormFields : handleSubmit(form)
     /\ UNCHANGED <<exportVars, remoteVars, identityVars>>
  \/ /\ \E i \in 1..Len(categories) : \E id \in Pickable(categories[i]) :
          togglePinnedTransaction(id)
     /\ UNCHANGED <<exportVars, remoteVars, identityVars>>
  \/ /\ \E i \in 1..Len(categories) : \E id \in Pickable(categories[i]) :
          duplicateTransaction(categories[i].id, id)
     /\ UNCHANGED <<exportVars, remoteVars, identityVars>>
  \/ /\ \E i \in 1..Len(categories) : \E id \in Pickable(categories[i]) :
          handleDragStart(categories[i].id, id)
     /\ UNCHANGED <<exportVars, remoteVars, identityVars>>
  \/ /\ \E c \in CategoryKey : handleDragOver(c)
     /\ UNCHANGED <<exportVars, remoteVars, identityVars>>
  \/ /\ \E c \in CategoryKey : handleDrop(c)
     /\ UNCHANGED <<exportVars, remoteVars, identityVars>>
  \/ /\ handleDragEnd
     /\ UNCHANGED <<exportVars, remoteVars, identityVars>>
  \/ /\ \E i \in 1..Len(categories) : \E id \in Pickable(categories[i]) :
          deleteTransaction(categories[i].id, id)
     /\ UNCHANGED <<exportVars, remoteVars, identityVars>>
  \/ /\ \E c \in CategoryKey, id \in StaleIds : deleteTransaction(c, id)
     /\ UNCHANGED <<exportVars, remoteVars, identityVars>>
  \/ /\ handleTrashDragOver
     /\ UNCHANGED <<exportVars, remoteVars, identityVars>>
  \/ /\ handleTrashDragLeave
     /\ UNCHANGED <<exportVars, remoteVars, identityVars>>
  \/ /\ handleTrashDrop
     /\ UNCHANGED <<exportVars, remoteVars, identityVars>>

Spec == Init /\ [][Next]_vars

\* The ledger after every seeded transaction has been deleted.
emptiedCategories ==
  [i \in 1..Len(initialCategories) |->
     [initialCategories[i] EXCEPT !.transactions = <<>>]]

\* The weekly expense of the payloads, as entered first after a clean-up.
firstEntry ==
  LET p == CHOOSE q \in AddPayloads : q.flow = "Expense" /\ q.cadence = "Weekly"
  IN  [id |-> SeededCount + 1, label |-> p.label, amount |-> p.amount,
       cadence |-> p.cadence, flow |-> p.flow, note |-> p.note,
       date |-> p.date, createdAt |-> Now]

\* A ledger rebuilt from scratch: every seeded transaction has been deleted,
\* and either nothing or one weekly expense under the financial obligations
\* has been entered through the form since.
InitLedger ==
  /\ \/ /\ categories = emptiedCategories
        /\ nextId = SeededCount + 1
     \/ /\ categories = AddedTo(emptiedCategories, "financial-obligations", firstEntry)
        /\ nextId = SeededCount + 2
  /\ pinnedTransactionIds = <<>>
  /\ dragState = NoDrag
  /\ dropCategoryId = Null
  /\ isTrashHovered = FALSE
  /\ events = 0
  /\ last = [op |-> "init", from |-> Null, to |-> Null, id |-> 0,
             present |-> FALSE, hover |-> Null, pinned |-> FALSE]
  /\ csvCall = NoCall
  /\ csvDocument = NoDocument
  /\ isLoading = FALSE
  /\ pending = {}
  /\ consoleErrors = 0
  /\ remoteStore = {}
  /\ signInUnmounted

SpecLedger == InitLedger /\ [][Next]_vars

\* A contribution planned for tomorrow, as entered through the form.
plannedEntry ==
  LET p == CHOOSE q \in AddPayloads : q.date = Today + 1
  IN  [id |-> SeededCount + 1, label |-> p.label, amount |-> p.amount,
       cadence |-> p.cadence, flow |-> p.flow, note |-> p.note,
       date |-> p.date, createdAt |-> Now]

\* The seeded ledger after that contribution has been added to the savings.
InitPlanned ==
  /\ categories = AddedTo(initialCategories, "savings-investments", plannedEntry)
  /\ nextId = SeededCount + 2
  /\ pinnedTransactionIds = <<>>
  /\ dragState = NoDrag
  /\ dropCategoryId = Null
  /\ isTrashHovered = FALSE
  /\ events = 0
  /\ last = [op |-> "init", from |-> Null, to |-> Null, id |-> 0,
             present |-> FALSE, hover |-> Null, pinned |-> FALSE]
  /\ csvCall = NoCall
  /\ csvDocument = NoDocument
  /\ isLoading = FALSE
  /\ pending = {}
  /\ consoleErrors = 0
  /\ remoteStore = {}
  /\ signInUnmounted

SpecPlanned == InitPlanned /\ [][Next]_vars

\* Cell texts of an export: plain, with a comma (a formatted amount), with
\* quotes, with a line break, with all three, empty.
CellTexts ==
  {"Rent", "$3,200.00", "say \"hi\"", "two\nlines", "\"a\",\nb", ""}

HeaderRows == { <<"Metric", "Amount">>, <<"Category", "Total, over timeframe">> }

\* The sequences over S of length at most n.
RECURSIVE SeqsUpTo(_, _)
SeqsUpTo(S, n) ==
  IF n = 0
    THEN {<<>>}
    ELSE LET shorter == SeqsUpTo(S, n - 1)
         IN  shorter \cup {Append(q, x) : q \in shorter, x \in S}

\* An export is called with a header row and up to MaxRows rows of two cells.
InitCsv ==
  /\ categories = initialCategories
  /\ pinnedTransactionIds = <<>>
  /\ dragState = NoDrag
  /\ dropCategoryId = Null
  /\ isTrashHovered = FALSE
  /\ nextId = SeededCount + 1
  /\ events = 0
  /\ last = [op |-> "init", from |-> Null, to |-> Null, id |-> 0,
             present |-> FALSE, hover |-> Null, pinned |-> FALSE]
  /\ csvCall \in [headers : HeaderRows,
                  rows : SeqsUpTo(CellTexts \X CellTexts, MaxRows)]
  /\ csvDocument = NoDocument
  /\ isLoading = FALSE
  /\ pending = {}
  /\ consoleErrors = 0
  /\ remoteStore = {}
  /\ signInUnmounted

NextCsv == downloadCsv

SpecCsv == InitCsv /\ [][NextCsv]_vars

\* The seeded ledger while the first card of the financial obligations,
\* pinned or not, is being dragged.
InitDragging ==
  /\ categories = initialCategories
  /\ pinnedTransactionIds \in {<<>>, <<initialCategories[2].transactions[1].id>>}
  /\ dragState = [transactionId |-> initialCategories[2].transactions[1].id,
                  fromCategoryId |-> initialCategories[2].id]
  /\ dropCategoryId = Null
  /\ isTrashHovered = FALSE
  /\ nextId = SeededCount + 1
  /\ events = 0
  /\ last = [op |-> "dragStart", from |-> initialCategories[2].id, to |-> Null,
             id |-> initialCategories[2].transactions[1].id, present |-> TRUE,
             hover |-> Null, pinned |-> FALSE]
  /\ csvCall = NoCall
  /\ csvDocument = NoDocument
  /\ isLoading = FALSE
  /\ pending = {}
  /\ consoleErrors = 0
  /\ remoteStore = {}
  /\ signInUnmounted

SpecDragging == InitDragging /\ [][Next]_vars

\* The ids a call of duplicateTransaction may name that are not in the
\* category it names: cards of the other columns, and an id never issued.
IdsElsewhere(categoryId) ==
  (UNION {Pickable(categories[i]) : i \in 1..Len(categories)} \cup {nextId})
    \ IdsOf(TransactionsOf(categories, categoryId))

\* The seeded ledger, with nothing pinned or with the first transaction of
\* financial-obligations pinned.
InitDuplicate ==
  /\ categories = initialCategories
  /\ pinnedTransactionIds \in
       {<<>>, <<initialCategories[2].transactions[1].id>>}
  /\ dragState = NoDrag
  /\ dropCategoryId = Null
  /\ isTrashHovered = FALSE
  /\ nextId = SeededCount + 1
  /\ events = 0
  /\ last = [op |-> "init", from |-> Null, to |-> Null, id |-> 0,
             present |-> FALSE, hover |-> Null, pinned |-> FALSE]
  /\ csvCall = NoCall
  /\ csvDocument = NoDocument
  /\ isLoading = FALSE
  /\ pending = {}
  /\ consoleErrors = 0
  /\ remoteStore = {}
  /\ signInUnmounted

\* Calls of duplicateTransaction: for a card of the column, and for an id
\* the column does not hold.
NextDuplicate ==
  \/ /\ \E i \in 1..Len(categories) : \E id \in Pickable(categories[i]) :
          duplicateTransaction(categories[i].id, id)
     /\ UNCHANGED <<exportVars, remoteVars, identityVars>>
  \/ /\ \E c \in CategoryKey : \E id \in IdsElsewhere(c) :
          duplicateTransaction(c, id)
     /\ UNCHANGED <<exportVars, remoteVars, identityVars>>

SpecDuplicate == InitDuplicate /\ [][NextDuplicate]_vars

\* ------------------------------------------- the remote-persistence App

\* What the categories endpoint returns, in sort_order.
categoryRows ==
  [i \in 1..Len(baseCategories) |->
     [id |-> baseCategories[i].id, name |-> baseCategories[i].name]]

\* What the transactions endpoint returns.
transactionRows ==
  << [id |-> 1, category_id |-> "financial-obligations", label |-> "Rent",
      amount |-> "1850", cadence |-> "Monthly", flow |-> "Expense",
      note |-> Null, created_at |-> Now],
     [id |-> 2, category_id |-> "income", label |-> "Primary paycheck",
      amount |-> "3200", cadence |-> "Monthly", flow |-> "Income",
      note |-> "first of the month", created_at |-> Now],
     [id |-> 3, category_id |-> "financial-obligations", label |-> "Student loan",
      amount |-> "220", cadence |-> "Monthly", flow |-> "Expense",
      note |-> Null, created_at |-> Now] >>

mapCategoryRow(row) == [id |-> row.id, name |-> row.name, transactions |-> <<>>]

mapTransactionRow(row) ==
  [id |-> row.id, label |-> row.label, amount |-> Number(row.amount).value,
   cadence |-> row.cadence, flow |-> row.flow,
   note |-> IF row.note = Null THEN "" ELSE row.note,
   createdAt |-> row.created_at]

\* categoriesWithTransactions of loadData.
categoriesWithTransactions(rows) ==
  [i \in 1..Len(categoryRows) |->
     LET category == mapCategoryRow(categoryRows[i])
         own == SelectSeq(rows, LAMBDA row : row.category_id = category.id)
     IN  [category EXCEPT
            !.transactions = [j \in 1..Len(own) |-> mapTransactionRow(own[j])]]]

\* What the form of the remote-persistence App submits.
RemotePayloads ==
  { [categoryId |-> "income", label |-> "Tutoring", amount |-> 50,
     cadence |-> "Bi-weekly", flow |-> "Income", note |-> ""],
    [categoryId |-> "financial-obligations", label |-> "Groceries", amount |-> 300,
     cadence |-> "Weekly", flow |-> "Expense", note |-> "weekly shop"] }

\* The outcomes of a REST request: fetchJson resolves with data or with an
\* error, it never rejects.
Outcomes == {"ok", "error"}

Request(kind, from, to, id, payload) ==
  [kind |-> kind, from |-> from, to |-> to, id |-> id, payload |-> payload,
   tag |-> events]

NoPayload == [categoryId |-> Null]

\* The transactions table behind the REST endpoint, as far as the App reads
\* it back: which ids exist and the category_id of each.
storedRows(rows) ==
  {[id |-> rows[i].id, category_id |-> rows[i].category_id] : i \in 1..Len(rows)}

\* POST /rest/v1/transactions with the payload as body.
store_Inserted(store, id, categoryId) ==
  store \cup {[id |-> id, category_id |-> categoryId]}

\* PATCH /rest/v1/transactions?id=eq.<id> with body {category_id}.
store_Updated(store, id, toCategory) ==
  {IF row.id = id THEN [row EXCEPT !.category_id = toCategory] ELSE row :
     row \in store}

\* DELETE /rest/v1/transactions?id=eq.<id>.
store_Deleted(store, id) == {row \in store : row.id # id}

\* The three setters every handler of the drag machine ends with.
ResetDrag ==
  /\ dragState' = NoDrag
  /\ dropCategoryId' = Null
  /\ isTrashHovered' = FALSE

\* The setCategories updater of the remote handleAddTransaction.
remote_AddedTo(current, categoryId, newTransaction) ==
  [i \in 1..Len(current) |->
     IF current[i].id = categoryId
       THEN [current[i] EXCEPT
               !.transactions = Append(current[i].transactions, newTransaction)]
       ELSE current[i]]

\* The setCategories updater of the remote moveTransaction.
remote_Moved(current, fromCategory, toCategory, transactionId) ==
  LET found == SelectSeq(TransactionsOf(current, fromCategory),
                         LAMBDA t : t.id = transactionId)
  IN  IF found = <<>>
        THEN current
        ELSE [i \in 1..Len(current) |->
                IF current[i].id = fromCategory
                  THEN [current[i] EXCEPT
                          !.transactions = SelectSeq(current[i].transactions,
                                             LAMBDA t : t.id # transactionId)]
                  ELSE IF current[i].id = toCategory
                    THEN [current[i] EXCEPT
                            !.transactions = Append(current[i].transactions,
                                                    found[Len(found)])]
                    ELSE current[i]]

\* The setCategories updater of the remote deleteTransaction.
remote_Deleted(current, categoryId, transactionId) ==
  [i \in 1..Len(current) |->
     IF current[i].id = categoryId
       THEN [current[i] EXCEPT
               !.transactions = SelectSeq(current[i].transactions,
                                  LAMBDA t : t.id # transactionId)]
       ELSE current[i]]

\* The fetch loadData is awaiting: fetchCategories first, fetchTransactions
\* once the categories have arrived.
Fetch(kind) ==
  [kind |-> kind, from |-> Null, to |-> Null, id |-> 0, payload |-> NoPayload,
   tag |-> 0]

\* Faulty variant of remote_fetchCategoriesSettled: the early return leaves
\* isLoading as it was.
remote_fetchCategoriesSettled_KeepsLoading(request, outcome) ==
  /\ request.kind = "categories"
  /\ IF outcome = "error"
       THEN /\ consoleErrors' = consoleErrors + 1
            /\ pending' = pending \ {request}
            /\ last' = Event("load", Null, Null, 0)
            /\ UNCHANGED isLoading
       ELSE /\ pending' = (pending \ {request}) \cup {Fetch("transactions")}
            /\ UNCHANGED <<isLoading, consoleErrors, last>>
  /\ UNCHANGED <<categories, pinnedTransactionIds, dragState, dropCategoryId,
                 isTrashHovered, nextId, events, remoteStore, exportVars,
                 identityVars>>

\* loadData after its first await: without category rows it logs, clears
\* isLoading and returns; with them it goes on to fetch the transactions.
remote_fetchCategoriesSettled(request, outcome) ==
  /\ request.kind = "categories"
  /\ IF outcome = "error"
       THEN /\ consoleErrors' = consoleErrors + 1
            /\ isLoading' = FALSE
            /\ pending' = pending \ {request}
            /\ last' = Event("load", Null, Null, 0)
       ELSE /\ pending' = (pending \ {request}) \cup {Fetch("transactions")}
            /\ UNCHANGED <<isLoading, consoleErrors, last>>
  /\ UNCHANGED <<categories, pinnedTransactionIds, dragState, dropCategoryId,
                 isTrashHovered, nextId, events, remoteStore, exportVars,
                 identityVars>>

\* loadData after its second await: a failure is logged and the rows count as
\* none; the categories are set with their transactions and isLoading cleared.
remote_fetchTransactionsSettled(request, outcome) ==
  /\ request.kind = "transactions"
  /\ pending' = pending \ {request}
  /\ consoleErrors' = consoleErrors + (IF outcome = "error" THEN 1 ELSE 0)
  /\ categories' =
       categoriesWithTransactions(
         IF outcome = "error" THEN <<>> ELSE transactionRows)
  /\ isLoading' = FALSE
  /\ last' = Event("load", Null, Null, 0)
  /\ UNCHANGED <<pinnedTransactionIds, dragState, dropCategoryId, isTrashHovered,
                 nextId, events, remoteStore, exportVars, identityVars>>

\* handleAddTransaction up to its await: the insert request is sent.
remote_handleAddTransaction(payload) ==
  /\ ~isLoading
  /\ \E i \in 1..Len(categories) : categories[i].id = payload.categoryId
  /\ events < MaxEvents
  /\ nextId <= Len(transactionRows) + MaxNew
  /\ pending' = pending \cup {Request("insert", Null, payload.categoryId, 0, payload)}
  /\ events' = events + 1
  /\ last' = Event("requestAdd", Null, payload.categoryId, 0)
  /\ UNCHANGED <<categories, pinnedTransactionIds, dragState, dropCategoryId,
                 isTrashHovered, nextId, isLoading, consoleErrors, remoteStore,
                 exportVars, identityVars>>

\* handleAddTransaction after its await.
remote_insertTransactionSettled(request, outcome) ==
  /\ request.kind = "insert"
  /\ pending' = pending \ {request}
  /\ IF outcome = "error"
       THEN /\ consoleErrors' = consoleErrors + 1
            /\ last' = Event("addFailed", Null, request.to, 0)
            /\ UNCHANGED <<categories, nextId, remoteStore>>
       ELSE LET insertedRow ==
                  [id |-> nextId, category_id |-> request.payload.categoryId,
                   label |-> request.payload.label,
                   amount |-> request.payload.amount,
                   cadence |-> request.payload.cadence,
                   flow |-> request.payload.flow, note |-> request.payload.note,
                   created_at |-> Now]
                newTransaction ==
                  [id |-> insertedRow.id, label |-> insertedRow.label,
                   amount |-> insertedRow.amount, cadence |-> insertedRow.cadence,
                   flow |-> insertedRow.flow, note |-> insertedRow.note,
                   createdAt |-> insertedRow.created_at]
            IN  /\ categories' = remote_AddedTo(categories, request.to, newTransaction)
                /\ nextId' = nextId + 1
                /\ remoteStore' = store_Inserted(remoteStore, insertedRow.id,
                                                 insertedRow.category_id)
                /\ last' = Event("addDone", Null, request.to, nextId)
                /\ UNCHANGED consoleErrors
  /\ UNCHANGED <<pinnedTransactionIds, dragState, dropCategoryId, isTrashHovered,
                 events, isLoading, exportVars, identityVars>>

\* Faulty variant of remote_handleDrop: the lists are changed before the request
\* is answered.
remote_handleDrop_Eager(targetCategoryId) ==
  /\ ~isLoading
  /\ events < MaxEvents
  /\ events' = events + 1
  /\ last' = Event("requestMove", dragState.fromCategoryId, targetCategoryId,
                   dragState.transactionId)
  /\ IF dragState = NoDrag
       THEN UNCHANGED <<categories, dragState, dropCategoryId, isTrashHovered,
                        pending>>
       ELSE IF dragState.fromCategoryId = targetCategoryId
         THEN ResetDrag /\ UNCHANGED <<categories, pending>>
         ELSE /\ pending' = pending \cup
                   {Request("update", dragState.fromCategoryId, targetCategoryId,
                            dragState.transactionId, NoPayload)}
              /\ categories' = remote_Moved(categories, dragState.fromCategoryId,
                                            targetCategoryId, dragState.transactionId)
              /\ isTrashHovered' = FALSE
              /\ UNCHANGED <<dragState, dropCategoryId>>
  /\ UNCHANGED <<pinnedTransactionIds, nextId, isLoading, consoleErrors,
                 remoteStore, exportVars, identityVars>>

\* drop on a category column: handleDrop, and moveTransaction up to its
\* await (or to its early return).
remote_handleDrop(targetCategoryId) ==
  /\ ~isLoading
  /\ events < MaxEvents
  /\ events' = events + 1
  /\ last' = Event("requestMove", dragState.fromCategoryId, targetCategoryId,
                   dragState.transactionId)
  /\ IF dragState = NoDrag
       THEN UNCHANGED <<categories, dragState, dropCategoryId, isTrashHovered,
                        pending>>
       ELSE IF dragState.fromCategoryId = targetCategoryId
         THEN ResetDrag /\ UNCHANGED <<categories, pending>>
         ELSE /\ pending' = pending \cup
                   {Request("update", dragState.fromCategoryId, targetCategoryId,
                            dragState.transactionId, NoPayload)}
              /\ isTrashHovered' = FALSE
              /\ UNCHANGED <<categories, dragState, dropCategoryId>>
  /\ UNCHANGED <<pinnedTransactionIds, nextId, isLoading, consoleErrors,
                 remoteStore, exportVars, identityVars>>

\* moveTransaction after its await.
remote_updateTransactionCategorySettled(request, outcome) ==
  /\ request.kind = "update"
  /\ pending' = pending \ {request}
  /\ ResetDrag
  /\ IF outcome = "error"
       THEN /\ consoleErrors' = consoleErrors + 1
            /\ last' = Event("moveFailed", request.from, request.to, request.id)
            /\ UNCHANGED <<categories, remoteStore>>
       ELSE /\ categories' = remote_Moved(categories, request.from, request.to,
                                         request.id)
            /\ remoteStore' = store_Updated(remoteStore, request.id, request.to)
            /\ last' = Event("moveDone", request.from, request.to, request.id)
            /\ UNCHANGED consoleErrors
  /\ UNCHANGED <<pinnedTransactionIds, nextId, events, isLoading, exportVars, identityVars>>

\* drop on the trash zone: handleTrashDrop, and deleteTransaction up to its
\* await.
remote_handleTrashDrop ==
  /\ ~isLoading
  /\ events < MaxEvents
  /\ dragState # NoDrag
  /\ pending' = pending \cup
       {Request("delete", dragState.fromCategoryId, Null, dragState.transactionId,
                NoPayload)}
  /\ events' = events + 1
  /\ last' = Event("requestDelete", dragState.fromCategoryId, Null,
                   dragState.transactionId)
  /\ UNCHANGED <<categories, pinnedTransactionIds, dragState, dropCategoryId,
                 isTrashHovered, nextId, isLoading, consoleErrors, remoteStore,
                 exportVars, identityVars>>

\* Faulty variant of remote_deleteTransactionByIdSettled: the transaction is
\* filtered out of its list whether or not the request succeeded.
remote_deleteTransactionByIdSettled_Regardless(request, outcome) ==
  /\ request.kind = "delete"
  /\ pending' = pending \ {request}
  /\ ResetDrag
  /\ categories' = remote_Deleted(categories, request.from, request.id)
  /\ IF outcome = "error"
       THEN /\ consoleErrors' = consoleErrors + 1
            /\ last' = Event("deleteFailed", request.from, Null, request.id)
            /\ UNCHANGED remoteStore
       ELSE /\ last' = Event("deleteDone", request.from, Null, request.id)
            /\ remoteStore' = store_Deleted(remoteStore, request.id)
            /\ UNCHANGED consoleErrors
  /\ UNCHANGED <<pinnedTransactionIds, nextId, events, isLoading, exportVars, identityVars>>

\* deleteTransaction after its await.
remote_deleteTransactionByIdSettled(request, outcome) ==
  /\ request.kind = "delete"
  /\ pending' = pending \ {request}
  /\ ResetDrag
  /\ IF outcome = "error"
       THEN /\ consoleErrors' = consoleErrors + 1
            /\ last' = Event("deleteFailed", request.from, Null, request.id)
            /\ UNCHANGED <<categories, remoteStore>>
       ELSE /\ categories' = remote_Deleted(categories, request.from, request.id)
            /\ remoteStore' = store_Deleted(remoteStore, request.id)
            /\ last' = Event("deleteDone", request.from, Null, request.id)
            /\ UNCHANGED consoleErrors
  /\ UNCHANGED <<pinnedTransactionIds, nextId, events, isLoading, exportVars, identityVars>>

\* The remote-persistence App after its first render and its mount effect:
\* nothing loaded yet, loadData awaiting fetchCategories.
InitRemote ==
  /\ categories = <<>>
  /\ pinnedTransactionIds = <<>>
  /\ dragState = NoDrag
  /\ dropCategoryId = Null
  /\ isTrashHovered = FALSE
  /\ nextId = Len(transactionRows) + 1
  /\ events = 0
  /\ last = [op |-> "init", from |-> Null, to |-> Null, id |-> 0,
             present |-> FALSE, hover |-> Null, pinned |-> FALSE]
  /\ csvCall = NoCall
  /\ csvDocument = NoDocument
  /\ isLoading = TRUE
  /\ pending = {Fetch("categories")}
  /\ consoleErrors = 0
  /\ remoteStore = storedRows(transactionRows)
  /\ signInUnmounted

\* The events of the remote-persistence App once loadData has finished.
NextLoaded ==
  \/ \E p \in RemotePayloads : remote_handleAddTransaction(p)
  \/ \E r \in pending, o \in Outcomes : remote_insertTransactionSettled(r, o)
  \/ /\ ~isLoading
     /\ \E i \in 1..Len(categories) : \E id \in Pickable(categories[i]) :
          handleDragStart(categories[i].id, id)
     /\ UNCHANGED <<exportVars, remoteVars, identityVars>>
  \/ /\ \E i \in 1..Len(categories) : handleDragOver(categories[i].id)
     /\ UNCHANGED <<exportVars, remoteVars, identityVars>>
  \/ \E i \in 1..Len(categories) : remote_handleDrop(categories[i].id)
  \/ \E r \in pending, o \in Outcomes : remote_updateTransactionCategorySettled(r, o)
  \/ /\ handleDragEnd
     /\ ~isLoading
     /\ UNCHANGED <<exportVars, remoteVars, identityVars>>
  \/ /\ handleTrashDragOver
     /\ UNCHANGED <<exportVars, remoteVars, identityVars>>
  \/ /\ handleTrashDragLeave
     /\ UNCHANGED <<exportVars, remoteVars, identityVars>>
  \/ remote_handleTrashDrop
  \/ \E r \in pending, o \in Outcomes : remote_deleteTransactionByIdSettled(r, o)

NextRemote ==
  \/ \E r \in pending, o \in Outcomes : remote_fetchCategoriesSettled(r, o)
  \/ \E r \in pending, o \in Outcomes : remote_fetchTransactionsSettled(r, o)
  \/ NextLoaded

SpecRemote == InitRemote /\ [][NextRemote]_vars

\* Each fetch of loadData settles: fetchJson resolves whenever the underlying
\* fetch resolves or rejects.
SpecRemoteFair ==
  /\ InitRemote
  /\ [][NextRemote]_vars
  /\ WF_vars(\E r \in pending, o \in Outcomes : remote_fetchCategoriesSettled(r, o))
  /\ WF_vars(\E r \in pending, o \in Outcomes : remote_fetchTransactionsSettled(r, o))

\* The requests a finished drag may have left in flight: the first card of
\* financial-obligations dropped on income, or on the trash zone.
RequestsInFlight ==
  { [kind |-> "update", from |-> "financial-obligations", to |-> "income",
     id |-> transactionRows[1].id, payload |-> NoPayload, tag |-> -1],
    [kind |-> "delete", from |-> "financial-obligations", to |-> Null,
     id |-> transactionRows[1].id, payload |-> NoPayload, tag |-> -1] }

\* The remote-persistence App after a successful load, a drag of the first
\* card of financial-obligations, its drop and its drag-end: the request of
\* the drop is still in flight and the drag machine is Idle again.
InitInFlight ==
  /\ categories = categoriesWithTransactions(transactionRows)
  /\ pinnedTransactionIds = <<>>
  /\ dragState = NoDrag
  /\ dropCategoryId = Null
  /\ isTrashHovered = FALSE
  /\ nextId = Len(transactionRows) + 1
  /\ events = 0
  /\ last = [op |-> "dragEnd", from |-> Null, to |-> Null, id |-> 0,
             present |-> FALSE, hover |-> Null, pinned |-> FALSE]
  /\ csvCall = NoCall
  /\ csvDocument = NoDocument
  /\ isLoading = FALSE
  /\ \E request \in RequestsInFlight : pending = {request}
  /\ consoleErrors = 0
  /\ remoteStore = storedRows(transactionRows)
  /\ signInUnmounted

SpecInFlight == InitInFlight /\ [][NextLoaded]_vars

\* ------------------------------------------- the Google sign-in button

MissingClientIdMessage ==
  "Add a VITE_GOOGLE_CLIENT_ID in your environment or update src/config/googleClient.ts with your client ID to enable Google sign-in."

LibraryNotFoundMessage ==
  "Google identity script loaded, but the library was not found."

ScriptFailedMessage == "Failed to load Google identity script."

\* VITE_GOOGLE_CLIENT_ID as the build may define it: not at all, blank, or
\* an id with stray spaces.
EnvClientIds == {"", "  ", " env-id.apps.googleusercontent.com "}

\* GOOGLE_CLIENT_ID of the configuration module: empty or an id.
ConfigClientIds == {"", "config-id.apps.googleusercontent.com"}

\* The clientId memo of GoogleSignInButton.
clientIdMemo(envValue, configValue) ==
  LET envClientId == trim(envValue)
      fallbackClientId == trim(configValue)
  IN  IF envClientId # "" THEN envClientId ELSE fallbackClientId

ClientIds ==
  {clientIdMemo(e, f) : e \in EnvClientIds, f \in ConfigClientIds}

Themes == {"light", "dark"}

\* A settled promise runs its reaction before any other event is handled.
ReactionQueued == loaderPromise \in {"resolved", "rejected"}

\* ensureGoogleIdentityScript in the browser: the promise it returns and the
\* script element it leaves in the document.  Listeners added to a script
\* element that has already failed are never called.
ensureGoogleIdentityScript ==
  IF googleLibrary
    THEN [promise |-> "resolved", script |-> scriptElement]
    ELSE IF scriptElement = "loaded"
      THEN [promise |-> "resolved", script |-> scriptElement]
      ELSE IF scriptElement # "absent"
        THEN [promise |-> "pending", script |-> scriptElement]
        ELSE [promise |-> "pending", script |-> "fetching"]

\* The effect that logs a failure: it runs when status or errorMessage has
\* changed and status is error with a message.
logSignInFailure ==
  consoleErrors' =
    consoleErrors +
      (IF /\ <<status', errorMessage'>> # <<status, errorMessage>>
          /\ status' = "error"
          /\ errorMessage' # Null /\ errorMessage' # ""
         THEN 1 ELSE 0)

\* The body of the load effect; the cleanup of the previous run has made the
\* previous promise's reactions do nothing.
loadEffect ==
  IF clientId = ""
    THEN /\ status' = "error"
         /\ errorMessage' = MissingClientIdMessage
         /\ loaderPromise' = "none"
         /\ UNCHANGED scriptElement
    ELSE /\ status' = "loading"
         /\ loaderPromise' = ensureGoogleIdentityScript.promise
         /\ scriptElement' = ensureGoogleIdentityScript.script
         /\ UNCHANGED errorMessage

\* What a sign-in step leaves alone.
signInFrame ==
  UNCHANGED <<categories, pinnedTransactionIds, dragState, dropCategoryId,
              isTrashHovered, nextId, exportVars, isLoading, pending,
              remoteStore, clientId, resolveVars>>

\* The button is mounted and its load effect runs for the first time.
signIn_mount ==
  /\ status = "idle"
  /\ loadEffect
  /\ logSignInFailure
  /\ last' = Event("mount", Null, Null, 0)
  /\ UNCHANGED <<theme, googleLibrary, events>>
  /\ signInFrame

\* The theme toggle of the landing page: the theme prop changes and the
\* load effect runs again.
signIn_onToggleTheme ==
  /\ status # "idle"
  /\ ~ReactionQueued
  /\ events < MaxEvents
  /\ theme' = IF theme = "dark" THEN "light" ELSE "dark"
  /\ loadEffect
  /\ logSignInFailure
  /\ events' = events + 1
  /\ last' = Event("toggleTheme", Null, Null, 0)
  /\ UNCHANGED googleLibrary
  /\ signInFrame

\* The load event of the script element; the script may or may not have
\* defined window.google.accounts.id.
signIn_scriptLoad(library) ==
  /\ scriptElement = "fetching"
  /\ ~ReactionQueued
  /\ scriptElement' = "loaded"
  /\ googleLibrary' = library
  /\ loaderPromise' = IF loaderPromise = "pending" THEN "resolved" ELSE loaderPromise
  /\ last' = Event("scriptLoad", Null, Null, 0)
  /\ UNCHANGED <<status, errorMessage, theme, events, consoleErrors>>
  /\ signInFrame

\* The error event of the script element.
signIn_scriptError ==
  /\ scriptElement = "fetching"
  /\ ~ReactionQueued
  /\ scriptElement' = "failed"
  /\ loaderPromise' = IF loaderPromise = "pending" THEN "rejected" ELSE loaderPromise
  /\ last' = Event("scriptError", Null, Null, 0)
  /\ UNCHANGED <<status, errorMessage, theme, googleLibrary, events, consoleErrors>>
  /\ signInFrame

\* The then-reaction of the load effect.
signIn_then ==
  /\ loaderPromise = "resolved"
  /\ loaderPromise' = "none"
  /\ IF ~googleLibrary
       THEN /\ status' = "error"
            /\ errorMessage' = LibraryNotFoundMessage
       ELSE /\ status' = "ready"
            /\ errorMessage' = Null
  /\ logSignInFailure
  /\ last' = Event("then", Null, Null, 0)
  /\ UNCHANGED <<theme, scriptElement, googleLibrary, events>>
  /\ signInFrame

\* The catch-reaction of the load effect.
signIn_catch ==
  /\ loaderPromise = "rejected"
  /\ loaderPromise' = "none"
  /\ status' = "error"
  /\ errorMessage' = ScriptFailedMessage
  /\ logSignInFailure
  /\ last' = Event("catch", Null, Null, 0)
  /\ UNCHANGED <<theme, scriptElement, googleLibrary, events>>
  /\ signInFrame

\* The callback given to initialize: the library answers a sign-in, with or
\* without a credential.
signIn_callback(hasCredential) ==
  /\ status = "ready"
  /\ ~ReactionQueued
  /\ events < MaxEvents
  /\ events' = events + 1
  /\ last' = Event(IF hasCredential THEN "onCredential" ELSE "noCredential",
                   Null, Null, 0)
  /\ UNCHANGED <<identityVars, consoleErrors>>
  /\ UNCHANGED <<categories, pinnedTransactionIds, dragState, dropCategoryId,
                 isTrashHovered, nextId, exportVars, isLoading, pending,
                 remoteStore>>

\* The landing page after its first render, before any effect has run.
InitSignIn ==
  /\ categories = initialCategories
  /\ pinnedTransactionIds = <<>>
  /\ dragState = NoDrag
  /\ dropCategoryId = Null
  /\ isTrashHovered = FALSE
  /\ nextId = SeededCount + 1
  /\ events = 0
  /\ last = [op |-> "init", from |-> Null, to |-> Null, id |-> 0,
             present |-> FALSE, hover |-> Null, pinned |-> FALSE]
  /\ csvCall = NoCall
  /\ csvDocument = NoDocument
  /\ isLoading = FALSE
  /\ pending = {}
  /\ consoleErrors = 0
  /\ remoteStore = {}
  /\ status = "idle"
  /\ errorMessage = Null
  /\ theme \in Themes
  /\ clientId \in ClientIds
  /\ scriptElement = "absent"
  /\ googleLibrary = FALSE
  /\ loaderPromise = "none"
  /\ resolveCall = NoResolveCall
  /\ resolvedClientId = NotResolved

NextSignIn ==
  \/ signIn_mount
  \/ signIn_onToggleTheme
  \/ \E library \in BOOLEAN : signIn_scriptLoad(library)
  \/ signIn_scriptError
  \/ signIn_then
  \/ signIn_catch
  \/ \E hasCredential \in BOOLEAN : signIn_callback(hasCredential)

SpecSignIn == InitSignIn /\ [][NextSignIn]_vars

\* --------------------------------------------- the Google client id

LOCAL_GOOGLE_CLIENT_ID ==
  "79775733699-m2t6l70fngeo69s4qjo5pmnoqo8enccm.apps.googleusercontent.com"

UpperCaseLetters == "ABCDEFGHIJKLMNOPQRSTUVWXYZ"

LowerCaseLetters == "abcdefghijklmnopqrstuvwxyz"

\* String.prototype.toLowerCase on the letters A to Z.
RECURSIVE toLowerCase(_)
toLowerCase(s) ==
  IF s = ""
    THEN ""
    ELSE LET ch == SubSeq(s, 1, 1)
             at == {i \in 1..Len(UpperCaseLetters) :
                      SubSeq(UpperCaseLetters, i, i) = ch}
             low == IF at = {}
                      THEN ch
                      ELSE LET i == CHOOSE i \in at : TRUE
                           IN  SubSeq(LowerCaseLetters, i, i)
         IN  low \o toLowerCase(SubSeq(s, 2, Len(s)))

startsWith(s, prefix) ==
  Len(s) >= Len(prefix) /\ SubSeq(s, 1, Len(prefix)) = prefix

endsWith(s, suffix) ==
  Len(s) >= Len(suffix) /\ SubSeq(s, Len(s) - Len(suffix) + 1, Len(s)) = suffix

\* hostname.toLowerCase().replace(/^https?:\/\//, '').
getHostKey(hostname) ==
  LET lower == toLowerCase(hostname)
  IN  IF startsWith(lower, "http://")
        THEN SubSeq(lower, 8, Len(lower))
        ELSE IF startsWith(lower, "https://")
          THEN SubSeq(lower, 9, Len(lower))
          ELSE lower

\* The number of decimal digits a string ends with.
RECURSIVE trailingDigits(_)
trailingDigits(s) ==
  IF Len(s) > 0 /\ DigitValue(SubSeq(s, Len(s), Len(s))) >= 0
    THEN 1 + trailingDigits(SubSeq(s, 1, Len(s) - 1))
    ELSE 0

\* hostname.replace(/:\d+$/, '').
stripPort(hostname) ==
  LET digits == trailingDigits(hostname)
      colon == Len(hostname) - digits
  IN  IF digits >= 1 /\ colon >= 1 /\ SubSeq(hostname, colon, colon) = ":"
        THEN SubSeq(hostname, 1, colon - 1)
        ELSE hostname

\* An object with string keys, as the sequence of its entries in insertion
\* order: assigning to a key it has keeps the key's place.
assign(object, key, value) ==
  IF \E i \in 1..Len(object) : object[i].key = key
    THEN [i \in 1..Len(object) |->
            IF object[i].key = key THEN [key |-> key, value |-> value]
            ELSE object[i]]
    ELSE Append(object, [key |-> key, value |-> value])

\* object[key], the empty string standing for undefined.
property(object, key) ==
  LET at == {i \in 1..Len(object) : object[i].key = key}
  IN  IF at = {} THEN "" ELSE object[CHOOSE i \in at : TRUE].value

\* { ...lower, ...upper }.
RECURSIVE spread(_, _)
spread(lower, upper) ==
  IF upper = <<>>
    THEN lower
    ELSE spread(assign(lower, upper[1].key, upper[1].value), Tail(upper))

\* normalizeHostMapKeys: entries with a blank key or value are skipped, the
\* others are stored under the key with and without its port.
RECURSIVE normalizeInto(_, _)
normalizeInto(normalized, entries) ==
  IF entries = <<>>
    THEN normalized
    ELSE LET value == trim(entries[1].value)
             trimmedKey == trim(entries[1].key)
             hostWithPort == getHostKey(trimmedKey)
             hostWithoutPort == stripPort(hostWithPort)
             first == IF hostWithPort # ""
                        THEN assign(normalized, hostWithPort, value)
                        ELSE normalized
             second == IF hostWithoutPort # ""
                         THEN assign(first, hostWithoutPort, value)
                         ELSE first
         IN  IF value = "" \/ trimmedKey = ""
               THEN normalizeInto(normalized, Tail(entries))
               ELSE normalizeInto(second, Tail(entries))

normalizeHostMapKeys(map) == normalizeInto(<<>>, map)

FALLBACK_CLIENT_IDS_BY_HOST ==
  normalizeHostMapKeys(
    << [key |-> "localhost:5173", value |-> LOCAL_GOOGLE_CLIENT_ID] >>)

\* Set.prototype.add on a set kept in insertion order.
add(candidates, value) ==
  IF \E i \in 1..Len(candidates) : candidates[i] = value
    THEN candidates
    ELSE Append(candidates, value)

addProtocolVariants(candidates, baseHost) ==
  IF baseHost = ""
    THEN candidates
    ELSE add(add(add(add(candidates, "https://" \o baseHost),
                     "https://" \o baseHost \o "/"),
                 "http://" \o baseHost),
             "http://" \o baseHost \o "/")

\* The capture of hostKey.match(/^.+?--(.+\.netlify\.app)$/), or the empty
\* string when there is no match.
netlifyBranchMatch(hostKey) ==
  LET tail == ".netlify.app"
      at == {i \in 2..(Len(hostKey) - 1) :
               /\ SubSeq(hostKey, i, i + 1) = "--"
               /\ Len(hostKey) - (i + 1) > Len(tail)
               /\ endsWith(hostKey, tail)}
  IN  IF at = {}
        THEN ""
        ELSE LET i == CHOOSE i \in at : \A j \in at : i <= j
             IN  SubSeq(hostKey, i + 2, Len(hostKey))

\* The positions of the dots of a host name.
dots(hostKey) == {i \in 1..Len(hostKey) : SubSeq(hostKey, i, i) = "."}

\* The loop over labels.slice(i).join('.') for i = 1 .. labels.length - 2.
RECURSIVE addParentDomains(_, _, _)
addParentDomains(candidates, hostKey, i) ==
  IF i > Cardinality(dots(hostKey)) - 1
    THEN candidates
    ELSE LET dot == CHOOSE d \in dots(hostKey) :
                      Cardinality({e \in dots(hostKey) : e <= d}) = i
             candidate == SubSeq(hostKey, dot + 1, Len(hostKey))
         IN  IF candidate # ""
               THEN addParentDomains(
                      addProtocolVariants(add(candidates, candidate), candidate),
                      hostKey, i + 1)
               ELSE addParentDomains(candidates, hostKey, i + 1)

deriveHostCandidates(hostname) ==
  LET hostKey == stripPort(getHostKey(hostname))
      named == add(add(add(<<hostKey>>, getHostKey(hostname)), hostname),
                   stripPort(hostname))
      withVariants == addProtocolVariants(named, hostKey)
      baseHost == netlifyBranchMatch(hostKey)
      withBase == IF baseHost # ""
                    THEN addProtocolVariants(add(withVariants, baseHost), baseHost)
                    ELSE withVariants
      all == addParentDomains(withBase, hostKey, 1)
  IN  IF hostKey = "" THEN <<>> ELSE SelectSeq(all, LAMBDA c : c # "")

\* parseHostMapFromEnv: null when VITE_GOOGLE_CLIENT_ID_MAP is unset or does
\* not parse to an object, else the normalized entries.
parseHostMapFromEnv(raw) ==
  IF raw.isObject
    THEN [isNull |-> FALSE, entries |-> normalizeHostMapKeys(raw.entries)]
    ELSE [isNull |-> TRUE, entries |-> <<>>]

\* hostCandidates.map(c => combinedMap[c]).find(value => Boolean(value)).
firstFound(map, hostCandidates) ==
  LET found == SelectSeq(hostCandidates, LAMBDA c : property(map, c) # "")
  IN  IF found = <<>> THEN "" ELSE property(map, found[1])

\* Faulty variant of resolveGoogleClientId: the built-in entries are spread
\* over the entries of the environment.
resolveGoogleClientId_FallbackWins(hostname, explicit, raw) ==
  LET explicitClientId == trim(explicit)
      mapFromEnv == parseHostMapFromEnv(raw)
      combinedMap == IF ~mapFromEnv.isNull
                       THEN spread(normalizeHostMapKeys(mapFromEnv.entries),
                                   FALLBACK_CLIENT_IDS_BY_HOST)
                       ELSE FALLBACK_CLIENT_IDS_BY_HOST
      hostCandidates == deriveHostCandidates(hostname)
  IN  IF explicitClientId # ""
        THEN explicitClientId
        ELSE trim(firstFound(combinedMap, hostCandidates))

resolveGoogleClientId(hostname, explicit, raw) ==
  LET explicitClientId == trim(explicit)
      mapFromEnv == parseHostMapFromEnv(raw)
      combinedMap == IF ~mapFromEnv.isNull
                       THEN spread(FALLBACK_CLIENT_IDS_BY_HOST,
                                   normalizeHostMapKeys(mapFromEnv.entries))
                       ELSE FALLBACK_CLIENT_IDS_BY_HOST
      hostCandidates == deriveHostCandidates(hostname)
  IN  IF explicitClientId # ""
        THEN explicitClientId
        ELSE trim(firstFound(combinedMap, hostCandidates))

\* Host names a caller may pass (location.host, location.hostname or an
\* origin), the empty string standing for a missing argument.
Hostnames ==
  {"", "localhost", "localhost:5173", "LOCALHOST:5173", "http://localhost:5173",
   "app.example.com", "https://www.app.example.com", "preview--ledger.netlify.app",
   "127.0.0.1:5173"}

\* Values of VITE_GOOGLE_CLIENT_ID.
ExplicitClientIds == {"", "   ", " explicit-id.apps.googleusercontent.com "}

\* Entries of VITE_GOOGLE_CLIENT_ID_MAP after JSON.parse.
HostMapEntries ==
  {<< >>,
   << [key |-> "localhost", value |-> "env-local-id"] >>,
   << [key |-> "localhost:5173", value |-> "env-5173-id"],
      [key |-> "localhost:3000", value |-> "env-3000-id"] >>,
   << [key |-> " https://App.Example.com ", value |-> " env-app-id "],
      [key |-> "ledger.netlify.app", value |-> "env-netlify-id"] >>,
   << [key |-> "localhost", value |-> "  "],
      [key |-> "  ", value |-> "env-blank-key-id"] >>}

\* Values of VITE_GOOGLE_CLIENT_ID_MAP: unset or not the JSON of an object,
\* or the JSON of an object with some entries.
HostMaps ==
  {[isObject |-> FALSE, entries |-> << >>]}
    \cup {[isObject |-> TRUE, entries |-> e] : e \in HostMapEntries}

\* resolveGoogleClientId(hostname) is called.
resolveGoogleClientId_call ==
  /\ ~resolvedClientId.called
  /\ resolvedClientId' =
       [called |-> TRUE,
        value |-> resolveGoogleClientId(resolveCall.hostname, resolveCall.explicit,
                                        resolveCall.hostMap)]
  /\ UNCHANGED resolveCall
  /\ UNCHANGED <<ledgerVars, exportVars, remoteVars, signInVars>>

InitClientId ==
  /\ categories = initialCategories
  /\ pinnedTransactionIds = <<>>
  /\ dragState = NoDrag
  /\ dropCategoryId = Null
  /\ isTrashHovered = FALSE
  /\ nextId = SeededCount + 1
  /\ events = 0
  /\ last = [op |-> "init", from |-> Null, to |-> Null, id |-> 0,
             present |-> FALSE, hover |-> Null, pinned |-> FALSE]
  /\ csvCall = NoCall
  /\ csvDocument = NoDocument
  /\ isLoading = FALSE
  /\ pending = {}
  /\ consoleErrors = 0
  /\ remoteStore = {}
  /\ status = "idle"
  /\ errorMessage = Null
  /\ theme = "light"
  /\ clientId = ""
  /\ scriptElement = "absent"
  /\ googleLibrary = FALSE
  /\ loaderPromise = "none"
  /\ resolveCall \in [hostname : Hostnames, explicit : ExplicitClientIds,
                       hostMap : HostMaps]
  /\ resolvedClientId = NotResolved

NextClientId == resolveGoogleClientId_call

SpecClientId == InitClientId /\ [][NextClientId]_vars

\* ---------------------------------------------------------------- claims

\* A drop that reached moveTransaction with two different categories.
IsMove(e) == e.op = "drop" /\ e.from # Null /\ e.from # e.to

IsDelete(e) == e.op \in {"delete", "trashDrop"}

\* C1: every transaction id is in the list of exactly one category, once:
\* no id ever occurs twice over all category lists, an add or a duplicate
\* brings in exactly the one new id, a delete takes out exactly the deleted
\* id, and every other event (a move in particular) keeps each id present.
C1_ExactlyOneCategory ==
  /\ [](\A id \in 1..(nextId - 1) : Occurrences(categories, id) <= 1)
  /\ [][LET before == AllIds(categories)
            after == AllIds(categories')
        IN  CASE last'.op = "add" ->
                   after = before \cup {last'.id} /\ last'.id \notin before
              [] last'.op = "duplicate" ->
                   after = before \cup {nextId} /\ nextId \notin before
              [] IsDelete(last') -> after = before \ {last'.id}
              [] OTHER -> after = before]_vars

\* C1 witness: a move has happened and the moved transaction is in the
\* target category and nowhere else.
C1_Witness ==
  /\ IsMove(last)
  /\ last.id \in IdsOf(TransactionsOf(categories, last.to))
  /\ Occurrences(categories, last.id) = 1

\* C2: moving a transaction of category A to another category B makes A's
\* list one shorter and B's one longer, leaves every other list as it was,
\* and the element that left A and arrived in B has the dragged id.
C2_MoveCounts ==
  [][(IsMove(last') /\ last'.id \in IdsOf(TransactionsOf(categories, last'.from)))
       => /\ Len(TransactionsOf(categories', last'.from))
               = Len(TransactionsOf(categories, last'.from)) - 1
          /\ Len(TransactionsOf(categories', last'.to))
               = Len(TransactionsOf(categories, last'.to)) + 1
          /\ \A c \in CategoryKey \ {last'.from, last'.to} :
               TransactionsOf(categories', c) = TransactionsOf(categories, c)
          /\ IdsOf(TransactionsOf(categories, last'.from))
               \ IdsOf(TransactionsOf(categories', last'.from)) = {last'.id}
          /\ IdsOf(TransactionsOf(categories', last'.to))
               \ IdsOf(TransactionsOf(categories, last'.to)) = {last'.id}]_vars

\* C2 witness: a transaction was moved out of a category that still holds
\* others into a category that held some already.
C2_Witness ==
  /\ IsMove(last)
  /\ Len(TransactionsOf(categories, last.from)) >= 1
  /\ Len(TransactionsOf(categories, last.to)) >= 2
  /\ last.id \in IdsOf(TransactionsOf(categories, last.to))

\* C3: a drop on the category the transaction was dragged from changes no
\* category list (order included) and not the pin set; the drag state is
\* back to Idle.
C3_SameCategoryNoOp ==
  [][(last'.op = "drop" /\ last'.from = last'.to)
       => /\ categories' = categories
          /\ pinnedTransactionIds' = pinnedTransactionIds
          /\ nextId' = nextId
          /\ dragState' = NoDrag
          /\ dropCategoryId' = Null
          /\ isTrashHovered' = FALSE]_vars

\* C3 witness: a transaction was dropped on its own category, which holds
\* further transactions behind it.
C3_Witness ==
  /\ last.op = "drop"
  /\ last.from = last.to
  /\ Len(TransactionsOf(categories, last.to)) >= 2
  /\ TransactionsOf(categories, last.to)[1].id = last.id

\* C4: after deleteTransaction (delete button or trash drop) the id is in no
\* category list and not in the pin set, and when the id was already absent
\* neither the category lists nor the pin set change.
C4_DeleteRemoves ==
  [][IsDelete(last')
       => /\ last'.id \notin AllIds(categories')
          /\ ~Includes(pinnedTransactionIds', last'.id)
          /\ ~last'.present
               => /\ categories' = categories
                  /\ pinnedTransactionIds' = pinnedTransactionIds]_vars

\* C4 witness: a trash drop has deleted the dragged transaction.
C4_Witness ==
  /\ last.op = "trashDrop"
  /\ last.present
  /\ last.id \notin AllIds(categories)
  /\ ~Includes(pinnedTransactionIds, last.id)

\* C5: the drag machine starts Idle, enters Dragging(origin, id) on
\* drag-start and on no other event, and after a drag-end, a drop on a
\* category or a drop on the trash zone it is Idle with dropCategoryId null
\* and the trash-hover flag false.
C5_DragMachine ==
  /\ [](last.op = "init" => dragState = NoDrag)
  /\ [](last.op \in {"dragEnd", "drop", "trashDrop"}
          => /\ dragState = NoDrag
             /\ dropCategoryId = Null
             /\ isTrashHovered = FALSE)
  /\ [][/\ last'.op = "dragStart"
             => dragState' = [transactionId |-> last'.id,
                              fromCategoryId |-> last'.from]
        /\ (dragState' # NoDrag /\ dragState' # dragState)
             => last'.op = "dragStart"]_vars

\* C5 witness: a drop on the category the drag started from has ended the
\* drag.
C5_Witness ==
  /\ last.op = "drop"
  /\ last.from = last.to
  /\ dragState = NoDrag
  /\ dropCategoryId = Null
  /\ ~isTrashHovered

\* Sum of the monthly-equivalents of a list, front to back.
RECURSIVE SumNormalized(_)
SumNormalized(transactions) ==
  IF transactions = <<>>
    THEN 0
    ELSE Normalized(Head(transactions)) + SumNormalized(Tail(transactions))

WithFlow(transactions, flows) == SelectSeq(transactions, LAMBDA t : t.flow \in flows)

AllTransactions == Flatten(categories, Len(categories))

\* The cadence table of the specification, in twelfths of the amount.
RECURSIVE TableSum(_)
TableSum(transactions) ==
  IF transactions = <<>>
    THEN 0
    ELSE LET t == Head(transactions)
             twelfths == CASE t.cadence = "Weekly" -> 48
                           [] t.cadence = "Bi-weekly" -> 24
                           [] t.cadence = "Monthly" -> 12
                           [] t.cadence = "Quarterly" -> 4
                           [] t.cadence = "Annual" -> 1
                           [] t.cadence = "One-time" -> 1
         IN  t.amount * twelfths + TableSum(Tail(transactions))

\* C6: the monthly-equivalent of a transaction is its amount times the
\* factor of its cadence (Weekly 4, Bi-weekly 2, Monthly 1, Quarterly 1/3,
\* Annual 1/12, One-time 1/12), and the category totals, the summary scalars
\* and the pinned summary are all sums of figures taken from that one table.
C6_CadenceTable ==
  LET s == summary(categories)
      pinned == SelectSeq(AllTransactions,
                          LAMBDA t : Includes(pinnedTransactionIds, t.id))
  IN  /\ \A i \in 1..Len(AllTransactions) :
           Normalized(AllTransactions[i]) * 12
             = TableSum(<<AllTransactions[i]>>) * Scale
      /\ \A i \in 1..Len(categories) :
           categoryMonthlyTotals(categories)[categories[i].id] * 12
             = ( TableSum(WithFlow(categories[i].transactions, {"Expense", "Savings"}))
                 - TableSum(WithFlow(categories[i].transactions, {"Income"})) ) * Scale
      /\ s.monthlyIncome * 12 = TableSum(WithFlow(AllTransactions, {"Income"})) * Scale
      /\ s.monthlyCommitments * 12
           = TableSum(WithFlow(AllTransactions, {"Expense", "Savings"})) * Scale
      /\ pinnedSummary(categories, pinnedTransactionIds).total * 12
           = TableSum(pinned) * Scale

\* C6 witness: a Quarterly transaction is in the ledger and pinned.
C6_Witness ==
  \E i \in 1..Len(AllTransactions) :
    /\ AllTransactions[i].cadence = "Quarterly"
    /\ Includes(pinnedTransactionIds, AllTransactions[i].id)

\* C7: the total of every category is the sum of the monthly-equivalents of
\* its Expense and Savings transactions minus the sum of those of its Income
\* transactions, whichever category that is; an empty category has total 0.
C7_CategoryTotals ==
  \A i \in 1..Len(categories) :
    LET list == categories[i].transactions
        total == categoryMonthlyTotals(categories)[categories[i].id]
    IN  /\ total = SumNormalized(WithFlow(list, {"Expense", "Savings"}))
                     - SumNormalized(WithFlow(list, {"Income"}))
        /\ list = <<>> => total = 0

\* C7 witness: an Income transaction sits next to an Expense transaction in a
\* category other than the income one, and the income category is empty.
C7_Witness ==
  /\ TransactionsOf(categories, "income") = <<>>
  /\ WithFlow(TransactionsOf(categories, "financial-obligations"), {"Income"}) # <<>>
  /\ WithFlow(TransactionsOf(categories, "financial-obligations"), {"Expense"}) # <<>>

\* C8: monthlyIncome sums the Income transactions, monthlyCommitments the
\* Expense and Savings ones, monthlySavings the Savings ones, net is income
\* minus commitments, totalTransactions counts all list entries; one Income
\* 3000/Monthly with one Expense 300/Weekly gives 3000, 1200 and net 1800.
C8_SummaryScalars ==
  LET s == summary(categories)
      example == /\ Len(AllTransactions) = 2
                 /\ \E i \in 1..2 : /\ AllTransactions[i].flow = "Income"
                                    /\ AllTransactions[i].amount = 3000
                                    /\ AllTransactions[i].cadence = "Monthly"
                 /\ \E i \in 1..2 : /\ AllTransactions[i].flow = "Expense"
                                    /\ AllTransactions[i].amount = 300
                                    /\ AllTransactions[i].cadence = "Weekly"
  IN  /\ s.monthlyIncome = SumNormalized(WithFlow(AllTransactions, {"Income"}))
      /\ s.monthlyCommitments
           = SumNormalized(WithFlow(AllTransactions, {"Expense"}))
             + SumNormalized(WithFlow(AllTransactions, {"Savings"}))
      /\ s.monthlySavings = SumNormalized(WithFlow(AllTransactions, {"Savings"}))
      /\ s.net = s.monthlyIncome - s.monthlyCommitments
      /\ s.totalTransactions = Cardinality(AllIds(categories))
      /\ example => /\ s.monthlyIncome = 3000 * Scale
                    /\ s.monthlyCommitments = 1200 * Scale
                    /\ s.net = 1800 * Scale

\* C8 witness: the ledger of the example, with the Expense in the financial
\* obligations category.
C8_Witness ==
  /\ Len(AllTransactions) = 2
  /\ summary(categories).monthlyIncome = 3000 * Scale
  /\ Len(TransactionsOf(categories, "financial-obligations")) = 1
  /\ TransactionsOf(categories, "financial-obligations")[1].amount = 300
  /\ TransactionsOf(categories, "financial-obligations")[1].cadence = "Weekly"

\* The transaction an add, duplicate, move or delete event is about.
Subject(e, before, after) ==
  LET from == IF e.op = "add" THEN after ELSE before
      all == Flatten(from, Len(from))
  IN  SelectSeq(all, LAMBDA t : t.id = e.id)

\* C9: adding, duplicating, moving or deleting an Income transaction leaves
\* monthlyCommitments and monthlySavings as they were.
C9_IncomeNeverCommits ==
  [][LET subject == Subject(last', categories, categories')
     IN  (/\ last'.op \in {"add", "duplicate", "drop", "delete", "trashDrop"}
          /\ subject # <<>>
          /\ subject[1].flow = "Income")
           => /\ summary(categories').monthlyCommitments
                   = summary(categories).monthlyCommitments
              /\ summary(categories').monthlySavings
                   = summary(categories).monthlySavings]_vars

\* C9 witness: an Income transaction has been moved into another category
\* and the ledger has commitments.
C9_Witness ==
  /\ IsMove(last)
  /\ \E t \in {AllTransactions[i] : i \in 1..Len(AllTransactions)} :
       t.id = last.id /\ t.flow = "Income"
  /\ summary(categories).monthlyCommitments > 0

\* The highest category total, and the first category that has it.
MaxTotal ==
  LET totals == categoryMonthlyTotals(categories)
  IN  CHOOSE m \in {totals[categories[i].id] : i \in 1..Len(categories)} :
        \A i \in 1..Len(categories) : totals[categories[i].id] <= m

FirstWithMaxTotal ==
  LET totals == categoryMonthlyTotals(categories)
  IN  CHOOSE i \in 1..Len(categories) :
        /\ totals[categories[i].id] = MaxTotal
        /\ \A j \in 1..(i - 1) : totals[categories[j].id] < MaxTotal

\* C10 as stated: topCategory names the first category with the highest
\* signed total and reports that total.
C10_TopCategoryIsMax ==
  /\ summary(categories).topCategory.name = categories[FirstWithMaxTotal].name
  /\ summary(categories).topCategory.total = MaxTotal

\* C10 amended: when some category has a total above 0, topCategory names
\* the first category with the highest signed total and reports that total;
\* when no category total is above 0 it names the first category of the list
\* and reports 0.
C10_TopCategoryAmended ==
  IF MaxTotal > 0
    THEN /\ summary(categories).topCategory.name = categories[FirstWithMaxTotal].name
         /\ summary(categories).topCategory.total = MaxTotal
    ELSE /\ summary(categories).topCategory.name = categories[1].name
         /\ summary(categories).topCategory.total = 0

\* C10 witness: two categories share the highest total, which is above 0.
C10_Witness ==
  /\ MaxTotal > 0
  /\ \E j \in (FirstWithMaxTotal + 1)..Len(categories) :
       categoryMonthlyTotals(categories)[categories[j].id] = MaxTotal

\* x taken n times, by repeated addition.
RECURSIVE Times(_, _)
Times(n, x) == IF n = 0 THEN 0 ELSE x + Times(n - 1, x)

\* C11: each of the four yearly figures is twelve times the monthly scalar
\* it is projected from, and the yearly net is the yearly income minus the
\* yearly commitments.
C11_YearlyIsTwelveMonths ==
  LET s == summary(categories)
      y == yearlyOutlook(categories)
  IN  /\ y.income = Times(12, s.monthlyIncome)
      /\ y.commitments = Times(12, s.monthlyCommitments)
      /\ y.savings = Times(12, s.monthlySavings)
      /\ y.net = Times(12, s.net)
      /\ y.net = y.income - y.commitments

\* C11 witness: after a form submission the year closes with a cushion, with
\* income, commitments and savings all above 0.
C11_Witness ==
  /\ last.op = "add"
  /\ yearlyOutlook(categories).net > 0
  /\ yearlyOutlook(categories).commitments > yearlyOutlook(categories).savings
  /\ yearlyOutlook(categories).savings > 0

\* The transactions of all category lists, as a set.
Held(current) ==
  LET all == Flatten(current, Len(current))
  IN  {all[i] : i \in 1..Len(all)}

Without(transactions, id) == SelectSeq(transactions, LAMBDA t : t.id # id)

\* Where the transaction of the given id stands in a list (0: nowhere).
PositionOf(transactions, id) ==
  IF id \in IdsOf(transactions)
    THEN CHOOSE j \in 1..Len(transactions) : transactions[j].id = id
    ELSE 0

\* A move of a transaction that was in the list it was dragged from.
IsEffectiveMove(e, before) ==
  IsMove(e) /\ e.id \in IdsOf(TransactionsOf(before, e.from))

CountOf(text, ch) == Cardinality({i \in 1..Len(text) : SubSeq(text, i, i) = ch})

\* text.split("\n").length
Lines(text) == 1 + CountOf(text, "\n")

\* What a CSV reader makes of a document: the records and their fields;
\* inside quotes a doubled quote is one quote and commas and line breaks
\* belong to the field.
RECURSIVE ReadFrom(_, _, _, _, _, _)
ReadFrom(document, i, quoted, fieldText, record, records) ==
  IF i > Len(document)
    THEN Append(records, Append(record, fieldText))
    ELSE LET ch == SubSeq(document, i, i)
         IN  IF quoted
               THEN IF ch = "\""
                      THEN IF i < Len(document) /\ SubSeq(document, i + 1, i + 1) = "\""
                             THEN ReadFrom(document, i + 2, TRUE, fieldText \o "\"",
                                           record, records)
                             ELSE ReadFrom(document, i + 1, FALSE, fieldText,
                                           record, records)
                      ELSE ReadFrom(document, i + 1, TRUE, fieldText \o ch,
                                    record, records)
               ELSE CASE ch = "\"" ->
                           ReadFrom(document, i + 1, TRUE, fieldText, record, records)
                      [] ch = "," ->
                           ReadFrom(document, i + 1, FALSE, "",
                                    Append(record, fieldText), records)
                      [] ch = "\n" ->
                           ReadFrom(document, i + 1, FALSE, "", <<>>,
                                    Append(records, Append(record, fieldText)))
                      [] OTHER ->
                           ReadFrom(document, i + 1, FALSE, fieldText \o ch,
                                    record, records)

ReadCsv(document) == ReadFrom(document, 1, FALSE, "", <<>>, <<>>)

\* The cells of a call, header cells first.
CellsOf(call) ==
  LET table == <<call.headers>> \o call.rows
  IN  {table[i][j] : i \in 1..Len(table), j \in 1..2}

\* The line breaks inside the cells of a call.
RECURSIVE BreaksIn(_)
BreaksIn(table) ==
  IF table = <<>>
    THEN 0
    ELSE CountOf(Head(table)[1], "\n") + CountOf(Head(table)[2], "\n")
         + BreaksIn(Tail(table))

RECURSIVE Undoubled(_)
Undoubled(text) ==
  IF Len(text) = 0
    THEN ""
    ELSE IF Len(text) >= 2 /\ SubSeq(text, 1, 2) = "\"\""
      THEN "\"" \o Undoubled(SubSeq(text, 3, Len(text)))
      ELSE SubSeq(text, 1, 1) \o Undoubled(SubSeq(text, 2, Len(text)))

Wrapped(emitted) ==
  /\ Len(emitted) >= 2
  /\ SubSeq(emitted, 1, 1) = "\""
  /\ SubSeq(emitted, Len(emitted), Len(emitted)) = "\""

Unquoted(emitted) ==
  IF Wrapped(emitted)
    THEN Undoubled(SubSeq(emitted, 2, Len(emitted) - 1))
    ELSE emitted

\* C15: a cell is emitted between double quotes exactly when it holds a
\* comma, a double quote or a line break; inside the wrapping every quote of
\* the cell stands doubled and nothing else is changed; any other cell is
\* emitted as it is; unquoting an emitted cell, and reading the built
\* document back, gives the original cell texts.
C15_QuotingRule ==
  /\ \A cell \in CellsOf(csvCall) :
       LET emitted == escapeCell(cell)
           special == \E ch \in {",", "\"", "\n"} : CountOf(cell, ch) > 0
       IN  /\ Wrapped(emitted) <=> special
           /\ special => /\ Len(emitted) = Len(cell) + 2 + CountOf(cell, "\"")
                          /\ CountOf(emitted, "\"") = 2 + 2 * CountOf(cell, "\"")
           /\ ~special => emitted = cell
           /\ Unquoted(emitted) = cell
  /\ csvDocument.built
       => ReadCsv(csvDocument.content) = <<csvCall.headers>> \o csvCall.rows

\* C15 witness: a document was built from a row that holds a cell with
\* quotes, a comma and a line break next to a plain cell.
C15_Witness ==
  /\ csvDocument.built
  /\ \E i \in 1..Len(csvCall.rows) :
       /\ CountOf(csvCall.rows[i][1], "\"") = 2
       /\ CountOf(csvCall.rows[i][1], ",") = 1
       /\ csvCall.rows[i][2] = "Rent"

\* C16: a drag-over on a column or on the trash zone, and a drag-leave of
\* the trash zone, change no category list, not the pin set and not the
\* drag state; a drop moves the dragged transaction into the column that
\* received the drop and into no other, whatever column was hovered last.
C16_HoverIsOnlyAHint ==
  [][/\ last'.op \in {"dragOver", "trashOver", "trashLeave"}
          => UNCHANGED <<categories, pinnedTransactionIds, dragState, nextId>>
     /\ IsEffectiveMove(last', categories)
          => \A c \in CategoryKey :
               last'.id \in IdsOf(TransactionsOf(categories', c)) <=> c = last'.to]_vars

\* C16 witness: a transaction was dropped on one column after another
\* column had been hovered, and it is in the column of the drop.
C16_Witness ==
  /\ IsMove(last)
  /\ last.hover \notin {Null, last.from, last.to}
  /\ last.id \in IdsOf(TransactionsOf(categories, last.to))
  /\ last.id \notin IdsOf(TransactionsOf(categories, last.hover))

\* C17: every id in the pin set is the id of a transaction that is in some
\* category list, and no id is in the pin set twice.
C17_PinsExist ==
  /\ \A i \in 1..Len(pinnedTransactionIds) :
       pinnedTransactionIds[i] \in AllIds(categories)
  /\ \A i, j \in 1..Len(pinnedTransactionIds) :
       pinnedTransactionIds[i] = pinnedTransactionIds[j] => i = j

\* C17 witness: a pinned transaction has been deleted; it is in no category
\* list and not in the pin set.
C17_Witness ==
  /\ IsDelete(last)
  /\ last.present
  /\ last.pinned
  /\ last.id \notin AllIds(categories)
  /\ ~Includes(pinnedTransactionIds, last.id)

\* The ids listed in the pinned summary.
PinnedItemIds(current, pins) ==
  LET items == pinnedSummary(current, pins).items
  IN  {items[i].id : i \in 1..Len(items)}

\* C18: a move leaves the pin set as it was; a pinned transaction that is
\* moved stays pinned and stays in the pinned summary with the value it had,
\* now under the name of the category it was moved to, and an unpinned one
\* stays out of it.
C18_PinSurvivesMove ==
  [][IsEffectiveMove(last', categories)
       => LET before == pinnedSummary(categories, pinnedTransactionIds)
              after == pinnedSummary(categories', pinnedTransactionIds')
          IN  /\ pinnedTransactionIds' = pinnedTransactionIds
              /\ PinnedItemIds(categories', pinnedTransactionIds')
                   = PinnedItemIds(categories, pinnedTransactionIds)
              /\ after.total = before.total
              /\ last'.id \in PinnedItemIds(categories', pinnedTransactionIds')
                   <=> last'.pinned
              /\ \A i \in 1..Len(after.items) :
                   after.items[i].id = last'.id
                     => /\ \E k \in 1..Len(categories') :
                             /\ categories'[k].id = last'.to
                             /\ categories'[k].name = after.items[i].categoryName
                        /\ \E j \in 1..Len(before.items) :
                             /\ before.items[j].id = last'.id
                             /\ before.items[j].value = after.items[i].value]_vars

\* C18 witness: a pinned transaction has been moved and is listed in the
\* pinned summary under its new category.
C18_Witness ==
  /\ IsMove(last)
  /\ last.pinned
  /\ Includes(pinnedTransactionIds, last.id)
  /\ \E i \in 1..Len(pinnedSummary(categories, pinnedTransactionIds).items) :
       LET item == pinnedSummary(categories, pinnedTransactionIds).items[i]
       IN  /\ item.id = last.id
           /\ \E k \in 1..Len(categories) :
                categories[k].id = last.to /\ categories[k].name = item.categoryName

\* C19: a submit the form accepts puts exactly one transaction into the
\* selected category: its id is the id of no transaction present before, the
\* category's list is one longer and holds the former entries in their
\* order, and every other category's list and the pin set are as they were.
C19_AddsOneFresh ==
  [][last'.op = "add"
       => /\ last'.id \notin AllIds(categories)
          /\ Occurrences(categories', last'.id) = 1
          /\ Len(TransactionsOf(categories', last'.to))
               = Len(TransactionsOf(categories, last'.to)) + 1
          /\ Without(TransactionsOf(categories', last'.to), last'.id)
               = TransactionsOf(categories, last'.to)
          /\ \A c \in CategoryKey \ {last'.to} :
               TransactionsOf(categories', c) = TransactionsOf(categories, c)
          /\ pinnedTransactionIds' = pinnedTransactionIds]_vars

\* C19 witness: with one transaction pinned, a submit has added a
\* transaction to a category that held others.
C19_Witness ==
  /\ last.op = "add"
  /\ Len(pinnedTransactionIds) = 1
  /\ last.id \in IdsOf(TransactionsOf(categories, last.to))
  /\ Len(TransactionsOf(categories, last.to)) >= 2

\* The local change a request in flight stands for is in the lists; a fetch
\* of loadData stands for none.
AppliedLocally(request) ==
  CASE request.kind = "insert" ->
         \E t \in Held(categories) :
           /\ t.label = request.payload.label
           /\ t.id \in IdsOf(TransactionsOf(categories, request.to))
    [] request.kind = "update" ->
         request.id \in IdsOf(TransactionsOf(categories, request.to))
    [] request.kind = "delete" -> request.id \notin AllIds(categories)
    [] request.kind \in {"categories", "transactions"} -> TRUE

FailedOps == {"addFailed", "moveFailed", "deleteFailed"}

C22_ErrorIsFinal ==
  /\ [](last.op = "catch"
          => status = "error" /\ errorMessage # Null /\ errorMessage # "")
  /\ [][(clientId # "" /\ status = "error" /\ errorMessage = ScriptFailedMessage)
          => status' = "error"]_vars

\* What the environment's host map alone gives for a host name.
envClientId(call) ==
  IF call.hostMap.isObject
    THEN firstFound(normalizeHostMapKeys(call.hostMap.entries),
                    deriveHostCandidates(call.hostname))
    ELSE ""

\* What the built-in map alone gives for a host name.
builtInClientId(call) ==
  firstFound(FALLBACK_CLIENT_IDS_BY_HOST, deriveHostCandidates(call.hostname))

DragUnderWay ==
  /\ dragState # NoDrag
  /\ last.op \in {"dragStart", "dragOver", "trashOver", "trashLeave"}

\* C24: the completion (success or failure) of a move or delete request
\* resets only the drag that issued it: a drag started while the request of
\* an earlier, finished drag is in flight stays Dragging(origin, id) when
\* that request completes.
C24_CompletionSparesNewDrag ==
  [][\A request \in pending :
       (/\ request.tag = -1
        /\ request \notin pending'
        /\ DragUnderWay)
         => dragState' = dragState]_vars

\* The ids the transactions table holds under a category.
StoredIn(categoryId) ==
  {row.id : row \in {r \in remoteStore : r.category_id = categoryId}}

\* C25: in the remote-persistence App, when no request has failed and every
\* request issued has been answered, each transaction's local category is
\* its category_id in the transactions table, and a transaction is in the
\* local lists exactly when it is in the table.
C25_LocalMatchesRemote ==
  (~isLoading /\ pending = {} /\ consoleErrors = 0)
    => \A c \in CategoryKey :
         IdsOf(TransactionsOf(categories, c)) = StoredIn(c)

\* C26: whenever the drag machine is Idle (dragState null), no column is
\* the hover target (dropCategoryId null) and the trash zone is not hovered:
\* a highlight never outlives the drag that caused it.
C26_IdleHasNoHighlight ==
  Idle => (dropCategoryId = Null /\ isTrashHovered = FALSE)

\* C26 witness: a drag that had highlighted a column has ended (by a drop, a
\* drop on the trash zone or a drag-end) and the highlight is gone.
C26_Witness ==
  /\ last.op \in {"drop", "trashDrop", "dragEnd"}
  /\ last.hover # Null
  /\ Idle
  /\ dropCategoryId = Null
  /\ isTrashHovered = FALSE

\* A list is in order of recency: timestamps never increase along it.
ByRecency(transactions) ==
  \A i \in 1..Len(transactions) : \A j \in i..Len(transactions) :
    getTransactionTimestamp(transactions[i])
      >= getTransactionTimestamp(transactions[j])

\* C27: in the dated App every category's list is ordered by non-increasing
\* timestamp (the date when there is one, else createdAt, else 0), in the
\* initial state and after every add, duplicate, move and delete.
C27_ListsByRecency ==
  \A i \in 1..Len(categories) : ByRecency(categories[i].transactions)

\* C27 witness: a transaction dated after the others of its category has
\* been added and stands first in the list, before an older one.
C27_Witness ==
  /\ last.op = "add"
  /\ LET list == TransactionsOf(categories, last.to)
     IN  /\ Len(list) >= 2
         /\ list[1].id = last.id
         /\ getTransactionTimestamp(list[1]) > getTransactionTimestamp(list[2])

\* The fields a copy shares with its original.
SameEntry(copy, original) ==
  /\ copy.label = original.label
  /\ copy.amount = original.amount
  /\ copy.cadence = original.cadence
  /\ copy.flow = original.flow
  /\ copy.note = original.note

\* C28: duplicateTransaction(categoryId, id) for a transaction of that
\* category adds exactly one transaction to the category, with an id no
\* transaction has and the label, amount, cadence, flow and note of the
\* original; the original and the other entries of the category, all other
\* categories and the pin set stay as they were, and the copy is not
\* pinned; when the id is not in that category the lists and the pin set do
\* not change.
C28_DuplicateCopies ==
  [][last'.op = "duplicate"
       => LET before == TransactionsOf(categories, last'.from)
              after == TransactionsOf(categories', last'.from)
          IN  /\ pinnedTransactionIds' = pinnedTransactionIds
              /\ \A c \in CategoryKey \ {last'.from} :
                   TransactionsOf(categories', c) = TransactionsOf(categories, c)
              /\ IF last'.id \in IdsOf(before)
                   THEN /\ Len(after) = Len(before) + 1
                        /\ \E j \in 1..Len(after) :
                             /\ after[j].id \notin AllIds(categories)
                             /\ Without(after, after[j].id) = before
                             /\ SameEntry(after[j],
                                          before[PositionOf(before, last'.id)])
                             /\ ~Includes(pinnedTransactionIds', after[j].id)
                   ELSE categories' = categories]_vars

\* C28 witness: a pinned transaction has been duplicated; its category holds
\* the original and a copy with another id, and only the original is pinned.
C28_Witness ==
  /\ last.op = "duplicate"
  /\ last.pinned
  /\ LET list == TransactionsOf(categories, last.from)
     IN  /\ last.id \in IdsOf(list)
         /\ \E j \in 1..Len(list) :
              /\ list[j].id # last.id
              /\ list[j].id = nextId - 1
              /\ SameEntry(list[j], list[PositionOf(list, last.id)])
              /\ ~Includes(pinnedTransactionIds, list[j].id)
  /\ Includes(pinnedTransactionIds, last.id)

\* The category totals of a table, added up in the order of the categories.
RECURSIVE SumOfTotals(_, _, _)
SumOfTotals(current, totals, n) ==
  IF n = 0
    THEN 0
    ELSE SumOfTotals(current, totals, n - 1) + totals[current[n].id]

\* C29: in every reachable state the signed monthly totals of all categories
\* add up to monthlyCommitments minus monthlyIncome, which is the negation of
\* net, and monthlySavings lies between 0 and monthlyCommitments.
C29_TotalsBalance ==
  LET s == summary(categories)
      totals == categoryMonthlyTotals(categories)
      sum == SumOfTotals(categories, totals, Len(categories))
  IN  /\ sum = s.monthlyCommitments - s.monthlyIncome
      /\ sum = 0 - s.net
      /\ 0 <= s.monthlySavings
      /\ s.monthlySavings <= s.monthlyCommitments

\* A Savings transaction has just been added to a table that also holds
\* Income and Expense entries, some of the income outside the income category.
C29_Witness ==
  LET s == summary(categories)
  IN  /\ last.op = "add"
      /\ \E i \in 1..Len(AllTransactions) :
            /\ AllTransactions[i].id = last.id
            /\ AllTransactions[i].flow = "Savings"
      /\ 0 < s.monthlySavings
      /\ s.monthlySavings < s.monthlyCommitments
      /\ 0 < s.monthlyIncome
      /\ \E c \in 1..Len(categories) :
            /\ categories[c].id # "income"
            /\ \E i \in 1..Len(categories[c].transactions) :
                  categories[c].transactions[i].flow = "Income"

\* The categories are the rows of the categories endpoint, each with an
\* empty transaction list.
LoadedEmpty(current) ==
  /\ Len(current) = Len(categoryRows)
  /\ \A i \in 1..Len(current) :
        /\ current[i].id = categoryRows[i].id
        /\ current[i].name = categoryRows[i].name
        /\ current[i].transactions = <<>>

\* A fetch of loadData has just been answered with an error: it is no longer
\* awaited and the failure has been logged.
FetchFailed(kind) ==
  /\ Fetch(kind) \in pending
  /\ Fetch(kind) \notin pending'
  /\ consoleErrors' = consoleErrors + 1

\* C30: in the remote-persistence App the initial load terminates: when each
\* fetch eventually settles, isLoading eventually becomes false, whether the
\* categories request and the transactions request succeed or fail; when the
\* categories request fails the category list stays empty, and when only the
\* transactions request fails the categories are loaded with empty
\* transaction lists.
C30_InitialLoadTerminates ==
  /\ <>(~isLoading)
  /\ [][(FetchFailed("categories")
            => (~isLoading' /\ categories = <<>> /\ categories' = <<>>))
         /\ (FetchFailed("transactions")
              => (~isLoading' /\ LoadedEmpty(categories')))]_vars

\* The categories arrived and the transactions request failed: the load is
\* over, one failure is logged and every category is there with no entries.
C30_Witness ==
  /\ last.op = "load"
  /\ ~isLoading
  /\ pending = {}
  /\ consoleErrors = 1
  /\ LoadedEmpty(categories)

====
